---------------------------- MODULE Spec2Model ----------------------------
(***************************************************************************)
(* A model of src/src/repo_reorg.py: the inventory scan, the duplicate     *)
(* detector, the not-needed filter, the destination classifier, the move   *)
(* planner and the apply loop, run against a small file tree.              *)
(*                                                                         *)
(* Paths and names are strings, and the string functions of the program    *)
(* (lower, in, startswith, replace, Path.suffix, Path.stem, Path.name,     *)
(* Path.parts) are computed on their characters.                           *)
(*                                                                         *)
(* The tree holds regular files and directories only (no symbolic links),  *)
(* so Path.resolve() of a path under the resolved root returns the path.   *)
(***************************************************************************)
EXTENDS Integers, Sequences, FiniteSets, TLC

(***************************************************************************)
(* Bounds of the model.                                                    *)
(***************************************************************************)
MaxFiles == 3
NContents == 2
NTimes == 2
MaxRuns == 2

(***************************************************************************)
(* String functions.  A path or a name is a string; its i-th character is  *)
(* SubSeq(s, i, i).                                                        *)
(***************************************************************************)
UpperCase == "ABCDEFGHIJKLMNOPQRSTUVWXYZ"
LowerCase == "abcdefghijklmnopqrstuvwxyz"

\* str.lower() of the upper-case letters
LowerOf == [c \in {SubSeq(UpperCase, i, i) : i \in 1..26} |->
               LET i == CHOOSE k \in 1..26 : SubSeq(UpperCase, k, k) = c
               IN  SubSeq(LowerCase, i, i)]

\* str.lower() of the first n characters of s
RECURSIVE LowerUpTo(_, _)
LowerUpTo(s, n) ==
    IF n = 0 THEN ""
    ELSE LET c == SubSeq(s, n, n)
         IN  LowerUpTo(s, n - 1) \o (IF c \in DOMAIN LowerOf THEN LowerOf[c] ELSE c)

\* str.lower()
lower(s) == LowerUpTo(s, Len(s))

\* k in s
Contains(s, k) == \E i \in 1..(Len(s) - Len(k) + 1) : SubSeq(s, i, i + Len(k) - 1) = k

\* any(k in s for k in ks)
ContainsAny(s, ks) == \E k \in ks : Contains(s, k)

\* s.startswith(p)
StartsWith(s, p) == Len(s) >= Len(p) /\ SubSeq(s, 1, Len(p)) = p

\* s.replace("\\", "/") of the first n characters of s
RECURSIVE ReplaceUpTo(_, _)
ReplaceUpTo(s, n) ==
    IF n = 0 THEN ""
    ELSE LET c == SubSeq(s, n, n)
         IN  ReplaceUpTo(s, n - 1) \o (IF c = "\\" THEN "/" ELSE c)

\* s.replace("\\", "/")
ReplaceBackslash(s) == ReplaceUpTo(s, Len(s))

\* s.rfind(c, 0, n) for a character c, counted from 1; 0 when c does not occur
RECURSIVE RFindUpTo(_, _, _)
RFindUpTo(s, c, n) ==
    IF n = 0 THEN 0
    ELSE IF SubSeq(s, n, n) = c THEN n
    ELSE RFindUpTo(s, c, n - 1)

\* s.rfind(c)
RFind(s, c) == RFindUpTo(s, c, Len(s))

\* Path(p).name: the last component
PathName(p) == SubSeq(p, RFind(p, "/") + 1, Len(p))

\* Path(p).parent, for a path with a separator
PathParent(p) == SubSeq(p, 1, RFind(p, "/") - 1)

\* Path(name).suffix: from the last dot on, unless that dot is the first or
\* the last character of the name
PathSuffix(name) ==
    LET i == RFind(name, ".")
    IN  IF 1 < i /\ i < Len(name) THEN SubSeq(name, i, Len(name)) ELSE ""

\* Path(name).stem
PathStem(name) ==
    LET i == RFind(name, ".")
    IN  IF 1 < i /\ i < Len(name) THEN SubSeq(name, 1, i - 1) ELSE name

\* Path(rel).parts
RECURSIVE PathParts(_)
PathParts(rel) ==
    IF rel = "" THEN <<>>
    ELSE IF RFind(rel, "/") = 0 THEN <<rel>>
    ELSE Append(PathParts(PathParent(rel)), PathName(rel))

\* str(i) of a natural number
RECURSIVE IntStr(_)
IntStr(i) ==
    IF i < 10 THEN SubSeq("0123456789", i + 1, i + 1)
    ELSE IntStr(i \div 10) \o SubSeq("0123456789", (i % 10) + 1, (i % 10) + 1)

\* dir / rel
Join(dir, rel) == dir \o "/" \o rel

(***************************************************************************)
(* Configuration of repo_reorg.py.                                         *)
(***************************************************************************)
REPO_LAYOUT ==
    <<"Build_plan", "docs", "spec", "src", "fixtures",
      "golden", "tools", "reports", "archive">>

ARCHIVE_SUBFOLDERS ==
    <<"archive/_duplicates", "archive/_not_needed", "archive/_unknown_review">>

NOT_NEEDED_EXTENSIONS == {".zip", ".7z", ".rar", ".bak", ".tmp", ".log"}

KEEP_EXTENSIONS ==
    {".html", ".css", ".js", ".json", ".md", ".txt",
                       ".png", ".jpg", ".jpeg", ".webp", ".gif", ".svg",
                       ".py", ".ts", ".tsx", ".jsx", ".yaml", ".yml",
                       ".csv"}

SKIP_DIRS == {".git", ".svn", ".hg", "__pycache__", "node_modules", ".venv"}

BUILD_PLAN_HINTS ==
    {"Build_plan", "MASTER_BUILD_PLAN", "MICROSTEP", "microsteps", "module",
                       "m0", "m1", "m2", "m3", "m4", "m5", "m6", "m7", "m8"}

CANONICAL_ROOT_FILES ==
    {"MASTER_BUILD_PLAN_CONSOLIDATED.html",
     "MASTER_BUILD_PLAN_CONSOLIDATED_V2.html",
     lower("MASTER_BUILD_PLAN_CONSOLIDATED.html"),
     "index.html"}

\* The keyword lists of choose_destination and classify_not_needed
HintsLower == {lower(h) : h \in BUILD_PLAN_HINTS}
SpecWords == {"contract", "schema", "spec"}
DataExtensions == {".json", ".yaml", ".yml"}
CodeExtensions == {".py", ".js", ".ts", ".tsx", ".jsx"}
\* Tool keywords that include the name of the source directory
ToolWordsWithSrc == {"tool", "script", "build", "validate", "export", "src"}
ToolWords == {"tool", "script", "build", "validate", "export"}
ImageExtensions == {".png", ".jpg", ".jpeg", ".webp", ".gif", ".svg"}
PlanImageWords ==
    {"build_plan", "micro", "reader", "module",
                       "m0", "m1", "m2", "m3", "m4", "m5", "m6", "m7", "m8"}
FixtureWords == {"fixture", "toybook", "book1window"}
GoldenWords == {"golden", "snapshot", "expected_output"}
NotNeededWords == {"old", "backup", "export", "exports", "tmp", "temp"}

\* The values of FileRecord.action
KEEP_IN_PLACE == "KEEP_IN_PLACE"
MOVE_TO_DEST == "MOVE_TO_DEST"
MOVE_TO_ARCHIVE_DUPLICATE == "MOVE_TO_ARCHIVE_DUPLICATE"
MOVE_TO_ARCHIVE_NOT_NEEDED == "MOVE_TO_ARCHIVE_NOT_NEEDED"
MOVE_TO_ARCHIVE_UNKNOWN == "MOVE_TO_ARCHIVE_UNKNOWN"

\* Python's None: for a reason, for a path and for a digest
None == "None"
NoPath == ""
NoSha == 0

\* choose_destination with the build-plan HTML rule tried before the others
choose_destination_html_first(rel, name) ==
    LET rel_l == lower(rel)
        name_l == lower(name)
        ext == lower(PathSuffix(name))
        base == PathName(name)
    IN  IF ext = ".html" /\ ContainsAny(rel_l, HintsLower)
        THEN <<"Build_plan/" \o base, "HTML appears to be build-plan related">>
        ELSE IF name \in CANONICAL_ROOT_FILES \/ name_l \in CANONICAL_ROOT_FILES
        THEN <<"Build_plan/" \o name, "Canonical plan entrypoint">>
        ELSE IF StartsWith(rel_l, "build_plan/")
        THEN <<ReplaceBackslash(rel), "Already in Build_plan">>
        ELSE IF ext = ".md"
        THEN IF ContainsAny(rel_l, SpecWords)
             THEN <<"spec/" \o base, "Spec-like markdown">>
             ELSE <<"docs/" \o base, "General markdown documentation">>
        ELSE IF ext \in DataExtensions /\ ContainsAny(rel_l, SpecWords)
        THEN <<"spec/" \o base, "Schema/contract file">>
        ELSE IF ext \in CodeExtensions
        THEN IF ContainsAny(rel_l, ToolWords)
             THEN <<"tools/" \o base, "Tooling script">>
             ELSE <<"src/" \o base, "Source code">>
        ELSE IF ext \in ImageExtensions
        THEN IF ContainsAny(rel_l, PlanImageWords)
             THEN <<"Build_plan/assets/" \o base, "Build-plan asset image">>
             ELSE <<"docs/assets/" \o base, "Documentation asset image">>
        ELSE IF ContainsAny(rel_l, FixtureWords)
        THEN <<"fixtures/" \o base, "Fixture file">>
        ELSE IF ContainsAny(rel_l, GoldenWords)
        THEN <<"golden/" \o base, "Golden output">>
        ELSE IF ext \in KEEP_EXTENSIONS
        THEN <<"docs/misc/" \o base, "Misc keep-extension file">>
        ELSE <<"archive/_unknown_review/" \o base, "Unknown file type; review">>

(***************************************************************************)
(* The destination classifier: (dest_rel, reason).                         *)
(***************************************************************************)
choose_destination(rel, name) ==
    LET rel_l == lower(rel)
        name_l == lower(name)
        ext == lower(PathSuffix(name))
        base == PathName(name)
    IN  IF name \in CANONICAL_ROOT_FILES \/ name_l \in CANONICAL_ROOT_FILES
        THEN <<"Build_plan/" \o name, "Canonical plan entrypoint">>
        ELSE IF StartsWith(rel_l, "build_plan/")
        THEN <<ReplaceBackslash(rel), "Already in Build_plan">>
        ELSE IF ext = ".html" /\ ContainsAny(rel_l, HintsLower)
        THEN <<"Build_plan/" \o base, "HTML appears to be build-plan related">>
        ELSE IF ext = ".md"
        THEN IF ContainsAny(rel_l, SpecWords)
             THEN <<"spec/" \o base, "Spec-like markdown">>
             ELSE <<"docs/" \o base, "General markdown documentation">>
        ELSE IF ext \in DataExtensions /\ ContainsAny(rel_l, SpecWords)
        THEN <<"spec/" \o base, "Schema/contract file">>
        ELSE IF ext \in CodeExtensions
        THEN IF ContainsAny(rel_l, ToolWords)
             THEN <<"tools/" \o base, "Tooling script">>
             ELSE <<"src/" \o base, "Source code">>
        ELSE IF ext \in ImageExtensions
        THEN IF ContainsAny(rel_l, PlanImageWords)
             THEN <<"Build_plan/assets/" \o base, "Build-plan asset image">>
             ELSE <<"docs/assets/" \o base, "Documentation asset image">>
        ELSE IF ContainsAny(rel_l, FixtureWords)
        THEN <<"fixtures/" \o base, "Fixture file">>
        ELSE IF ContainsAny(rel_l, GoldenWords)
        THEN <<"golden/" \o base, "Golden output">>
        ELSE IF ext \in KEEP_EXTENSIONS
        THEN <<"docs/misc/" \o base, "Misc keep-extension file">>
        ELSE <<"archive/_unknown_review/" \o base, "Unknown file type; review">>

(***************************************************************************)
(* The not-needed filter: a reason, or None.                               *)
(***************************************************************************)
\* classify_not_needed with the build_plan exemption applied to every file
classify_not_needed_exempt_first(path, rel) ==
    LET ext == lower(PathSuffix(PathName(path)))
        rel_l == lower(rel)
    IN  IF Contains(rel_l, "build_plan")
        THEN None
        ELSE IF ext \in NOT_NEEDED_EXTENSIONS
        THEN "Packaged artifact (" \o ext \o ")"
        ELSE IF ContainsAny(rel_l, NotNeededWords)
        THEN "Looks like export/backup/temp"
        ELSE None

classify_not_needed(path, rel) ==
    LET ext == lower(PathSuffix(PathName(path)))
        rel_l == lower(rel)
    IN  IF ext \in NOT_NEEDED_EXTENSIONS
        THEN "Packaged artifact (" \o ext \o ")"
        ELSE IF ContainsAny(rel_l, NotNeededWords) /\ ~Contains(rel_l, "build_plan")
        THEN "Looks like export/backup/temp"
        ELSE None

(***************************************************************************)
(* The file tree.  fs maps the absolute path of every regular file to its  *)
(* content (which stands for its bytes, and so for its digest), its        *)
(* modification time and its inode number, the identity a rename keeps;    *)
(* dirs is the set of directories.                                         *)
(***************************************************************************)
VARIABLES
    fs,         \* the regular files of the tree
    dirs,       \* the directories of the tree
    hashing,    \* args.hash, the same in every run of a behaviour
    order,      \* the order in which the directory listing gives the files
    pc,         \* where main() is: idle, planned, applying, done, crashed
    runs,       \* how many runs were started; the current run's now_stamp()
    apply,      \* args.apply of the current run
    scanFs,     \* the tree as the scan of the current run found it
    records,    \* records: the FileRecords, in scan order
    dup_paths,  \* dup_paths
    actions,    \* actions: the planned (src, dst) moves
    idx,        \* the position of the "execute moves" loop in actions
    probe,      \* an input of the two classifiers and what they returned
    site,           \* polish_links: the files of the tree, path -> bytes
    ppc,            \* polish_links: where main() is: idle, scanning, done
    pruns,          \* polish_links: how many runs were started; the run's stamp()
    papply,         \* polish_links: args.apply of the current run
    filename_index, \* polish_links: filename_index
    html_files,     \* polish_links: html_files
    fpos,           \* polish_links: the position of the loop in html_files
    broken,         \* polish_links: broken
    fixed           \* polish_links: fixed

\* The variables of repo_reorg.py and those of polish_links.py; order, the
\* order of a directory listing, is read by both
polishVars == <<site, ppc, pruns, papply, filename_index, html_files, fpos, broken, fixed>>

vars == <<fs, dirs, hashing, order, pc, runs, apply, scanFs, records, dup_paths, actions, idx, probe, polishVars>>

\* polish_links.py has not run and has no tree
PolishIdle ==
    /\ site = [p \in {} |-> ""]
    /\ ppc = "idle"
    /\ pruns = 0
    /\ papply = FALSE
    /\ filename_index = [n \in {} |-> <<>>]
    /\ html_files = <<>>
    /\ fpos = 1
    /\ broken = <<>>
    /\ fixed = <<>>

Root == "/repo"

\* normalize_rel(root, p)
normalize_rel(root, p) == ReplaceBackslash(SubSeq(p, Len(root) + 2, Len(p)))

\* Path.resolve() of a path of the tree
Resolve(p) == p

\* Path.exists()
Exists(tree, ds, p) == p \in DOMAIN tree \/ p \in ds

\* The directory d and the directories above it, up to the root
RECURSIVE Ancestors(_)
Ancestors(d) == IF Len(d) <= Len(Root) THEN {Root} ELSE {d} \cup Ancestors(PathParent(d))

\* is_in_skip_dir(Path(rel))
is_in_skip_dir(rel) == \E i \in DOMAIN PathParts(rel) : PathParts(rel)[i] \in SKIP_DIRS

\* The function f without the key k, and with the key k mapped to v
Without(f, k) == [x \in DOMAIN f \ {k} |-> f[x]]
With(f, k, v) == [x \in DOMAIN f \cup {k} |-> IF x = k THEN v ELSE f[x]]

\* The paths of a tree as a sequence of increasing inode number
RECURSIVE ByIno(_, _)
ByIno(tree, S) ==
    IF S = {} THEN <<>>
    ELSE LET m == CHOOSE x \in S : \A y \in S : tree[x].ino <= tree[y].ino
         IN  <<m>> \o ByIno(tree, S \ {m})

Reverse(seq) == [i \in 1..Len(seq) |-> seq[Len(seq) + 1 - i]]

\* root.rglob("*") without the directories: the files in the order the
\* directory listing gives them, by increasing or by decreasing inode number
Rglob(tree, ord) ==
    IF ord = "asc" THEN ByIno(tree, DOMAIN tree) ELSE Reverse(ByIno(tree, DOMAIN tree))

(***************************************************************************)
(* main(): the scan, the duplicate detector and the move planner.          *)
(***************************************************************************)
\* sha256_file(p): the digest of the bytes of p, of a file that can be read
sha256_file(tree, p) == tree[p].content

\* str(e) of the exception open(p, "rb") raises on a file that cannot be read
ReadError(p) == "[Errno 13] Permission denied: '" \o p \o "'"

\* The files the scan loop reaches p.stat() for, in listing order
Scanned(tree, ord) ==
    LET Kept(p) == ~is_in_skip_dir(normalize_rel(Root, p))
    IN  SelectSeq(Rglob(tree, ord), Kept)

\* p.stat() raises for a file of the scan (a dangling symbolic link, a file
\* of a directory that cannot be searched): the exception ends main()
ScanAborts(tree, ord) ==
    \E i \in 1..Len(Scanned(tree, ord)) : ~tree[Scanned(tree, ord)[i]].statable

\* The scan loop: one FileRecord for every listed file outside the skipped
\* directories (size, which no decision reads, is left out)
ScanRecords(tree, ord, hash) ==
    LET scanned == Scanned(tree, ord)
    IN  [i \in 1..Len(scanned) |->
            [rel_path |-> normalize_rel(Root, scanned[i]),
             abs_path |-> scanned[i],
             mtime |-> tree[scanned[i]].mtime,
             sha256 |-> IF hash /\ tree[scanned[i]].readable
                        THEN sha256_file(tree, scanned[i])
                        ELSE NoSha,
             action |-> KEEP_IN_PLACE,
             reason |-> IF hash /\ ~tree[scanned[i]].readable
                        THEN "Hash failed: " \o ReadError(scanned[i])
                        ELSE "",
             dest_rel_path |-> NoPath]]

\* hash_map: digest -> the paths with that digest, in scan order; a file
\* whose hashing failed is in no entry
HashMap(tree, recs) ==
    LET hashed == LET Hashed(r) == r.sha256 # NoSha IN SelectSeq(recs, Hashed)
    IN  [sha \in {hashed[i].sha256 : i \in 1..Len(hashed)} |->
            LET Same(r) == r.sha256 = sha
                same == SelectSeq(hashed, Same)
            IN  [i \in 1..Len(same) |-> same[i].abs_path]]

\* The sequence seq without its i-th element
RemoveAt(seq, i) == SubSeq(seq, 1, i - 1) \o SubSeq(seq, i + 1, Len(seq))

\* A sort by time, newest first, that puts paths of equal time in reverse order
RECURSIVE SortedNewestTiesReversed(_, _)
SortedNewestTiesReversed(tree, paths) ==
    IF paths = <<>> THEN <<>>
    ELSE LET i == CHOOSE k \in 1..Len(paths) :
                      /\ \A j \in 1..Len(paths) : tree[paths[j]].mtime <= tree[paths[k]].mtime
                      /\ \A j \in (k + 1)..Len(paths) : tree[paths[j]].mtime < tree[paths[k]].mtime
         IN  <<paths[i]>> \o SortedNewestTiesReversed(tree, RemoveAt(paths, i))

\* sorted(paths, key=lambda x: x.stat().st_mtime, reverse=True): newest first,
\* paths of equal time in their original order (the sort is stable)
RECURSIVE SortedNewestFirst(_, _)
SortedNewestFirst(tree, paths) ==
    IF paths = <<>> THEN <<>>
    ELSE LET i == CHOOSE k \in 1..Len(paths) :
                      /\ \A j \in 1..Len(paths) : tree[paths[j]].mtime <= tree[paths[k]].mtime
                      /\ \A j \in 1..(k - 1) : tree[paths[j]].mtime < tree[paths[k]].mtime
         IN  <<paths[i]>> \o SortedNewestFirst(tree, RemoveAt(paths, i))

\* The duplicates of one digest's group: all but the first of the sorted group
DupsOfGroup(tree, paths) ==
    LET paths_sorted == SortedNewestFirst(tree, paths)
    IN  IF Len(paths) > 1
        THEN {Resolve(paths_sorted[i]) : i \in 2..Len(paths_sorted)}
        ELSE {}

\* dup_paths
DupPaths(tree, recs, hash) ==
    IF hash
    THEN LET hash_map == HashMap(tree, recs)
         IN  UNION {DupsOfGroup(tree, hash_map[sha]) : sha \in DOMAIN hash_map}
    ELSE {}

\* PlanRecord with the not-needed check made before the duplicate check
PlanRecordFilterFirst(rec, hash, dups) ==
    LET src == rec.abs_path
        rel == rec.rel_path
        name == PathName(src)
        rel_l == lower(rel)
        not_needed_reason == classify_not_needed(src, rel)
        chosen == choose_destination(rel, name)
        dest_rel == chosen[1]
        reason == chosen[2]
    IN  IF not_needed_reason # None /\ ~StartsWith(rel_l, "archive/")
        THEN [rec |-> [rec EXCEPT !.action = MOVE_TO_ARCHIVE_NOT_NEEDED,
                                  !.reason = not_needed_reason,
                                  !.dest_rel_path = "archive/_not_needed/" \o name],
              acts |-> << <<src, Join(Root, "archive/_not_needed/" \o name)>> >>]
        ELSE IF hash /\ Resolve(src) \in dups
        THEN [rec |-> [rec EXCEPT !.action = MOVE_TO_ARCHIVE_DUPLICATE,
                                  !.reason = "Duplicate content (sha256 match)",
                                  !.dest_rel_path = "archive/_duplicates/" \o name],
              acts |-> << <<src, Join(Root, "archive/_duplicates/" \o name)>> >>]
        ELSE IF normalize_rel(Root, src) = dest_rel
        THEN [rec |-> [rec EXCEPT !.action = KEEP_IN_PLACE,
                                  !.reason = reason,
                                  !.dest_rel_path = dest_rel],
              acts |-> <<>>]
        ELSE [rec |-> [rec EXCEPT !.action = IF StartsWith(dest_rel, "archive/_unknown_review/")
                                             THEN MOVE_TO_ARCHIVE_UNKNOWN
                                             ELSE MOVE_TO_DEST,
                                  !.reason = reason,
                                  !.dest_rel_path = dest_rel],
              acts |-> << <<src, Join(Root, dest_rel)>> >>]

\* PlanRecord with the not-needed check made under archive/ too
PlanRecordNoExemption(rec, hash, dups) ==
    LET src == rec.abs_path
        rel == rec.rel_path
        name == PathName(src)
        rel_l == lower(rel)
        not_needed_reason == classify_not_needed(src, rel)
        chosen == choose_destination(rel, name)
        dest_rel == chosen[1]
        reason == chosen[2]
    IN  IF hash /\ Resolve(src) \in dups
        THEN [rec |-> [rec EXCEPT !.action = MOVE_TO_ARCHIVE_DUPLICATE,
                                  !.reason = "Duplicate content (sha256 match)",
                                  !.dest_rel_path = "archive/_duplicates/" \o name],
              acts |-> << <<src, Join(Root, "archive/_duplicates/" \o name)>> >>]
        ELSE IF not_needed_reason # None
        THEN [rec |-> [rec EXCEPT !.action = MOVE_TO_ARCHIVE_NOT_NEEDED,
                                  !.reason = not_needed_reason,
                                  !.dest_rel_path = "archive/_not_needed/" \o name],
              acts |-> << <<src, Join(Root, "archive/_not_needed/" \o name)>> >>]
        ELSE IF normalize_rel(Root, src) = dest_rel
        THEN [rec |-> [rec EXCEPT !.action = KEEP_IN_PLACE,
                                  !.reason = reason,
                                  !.dest_rel_path = dest_rel],
              acts |-> <<>>]
        ELSE [rec |-> [rec EXCEPT !.action = IF StartsWith(dest_rel, "archive/_unknown_review/")
                                             THEN MOVE_TO_ARCHIVE_UNKNOWN
                                             ELSE MOVE_TO_DEST,
                                  !.reason = reason,
                                  !.dest_rel_path = dest_rel],
              acts |-> << <<src, Join(Root, dest_rel)>> >>]

\* One turn of the "decide actions" loop: the record as the turn leaves it and
\* the entries the turn appends to actions
PlanRecord(rec, hash, dups) ==
    LET src == rec.abs_path
        rel == rec.rel_path
        name == PathName(src)
        rel_l == lower(rel)
        not_needed_reason == classify_not_needed(src, rel)
        chosen == choose_destination(rel, name)
        dest_rel == chosen[1]
        reason == chosen[2]
    IN  IF hash /\ Resolve(src) \in dups
        THEN [rec |-> [rec EXCEPT !.action = MOVE_TO_ARCHIVE_DUPLICATE,
                                  !.reason = "Duplicate content (sha256 match)",
                                  !.dest_rel_path = "archive/_duplicates/" \o name],
              acts |-> << <<src, Join(Root, "archive/_duplicates/" \o name)>> >>]
        ELSE IF not_needed_reason # None /\ ~StartsWith(rel_l, "archive/")
        THEN [rec |-> [rec EXCEPT !.action = MOVE_TO_ARCHIVE_NOT_NEEDED,
                                  !.reason = not_needed_reason,
                                  !.dest_rel_path = "archive/_not_needed/" \o name],
              acts |-> << <<src, Join(Root, "archive/_not_needed/" \o name)>> >>]
        ELSE IF normalize_rel(Root, src) = dest_rel
        THEN [rec |-> [rec EXCEPT !.action = KEEP_IN_PLACE,
                                  !.reason = reason,
                                  !.dest_rel_path = dest_rel],
              acts |-> <<>>]
        ELSE [rec |-> [rec EXCEPT !.action = IF StartsWith(dest_rel, "archive/_unknown_review/")
                                             THEN MOVE_TO_ARCHIVE_UNKNOWN
                                             ELSE MOVE_TO_DEST,
                                  !.reason = reason,
                                  !.dest_rel_path = dest_rel],
              acts |-> << <<src, Join(Root, dest_rel)>> >>]

\* The "decide actions" loop over the first n records
RECURSIVE PlanLoop(_, _, _, _)
PlanLoop(recs, n, hash, dups) ==
    IF n = 0 THEN [recs |-> recs, acts |-> <<>>]
    ELSE LET before == PlanLoop(recs, n - 1, hash, dups)
             turn == PlanRecord(recs[n], hash, dups)
         IN  [recs |-> [before.recs EXCEPT ![n] = turn.rec],
              acts |-> before.acts \o turn.acts]

\* A plan that hashes whenever the run applies
PlanHashOnApply(tree, ord, args) ==
    LET hash == args.hash \/ args.apply
        scanned == ScanRecords(tree, ord, hash)
        dups == DupPaths(tree, scanned, hash)
        planned == PlanLoop(scanned, Len(scanned), hash, dups)
    IN  [records |-> planned.recs, dup_paths |-> dups, actions |-> planned.acts]

\* The plan of a run: records, dup_paths and actions
Plan(tree, ord, args) ==
    LET scanned == ScanRecords(tree, ord, args.hash)
        dups == DupPaths(tree, scanned, args.hash)
        planned == PlanLoop(scanned, Len(scanned), args.hash, dups)
    IN  [records |-> planned.recs, dup_paths |-> dups, actions |-> planned.acts]

(***************************************************************************)
(* main(): the apply branch.                                               *)
(***************************************************************************)
\* now_stamp() of the n-th run; the runs start in different seconds
now_stamp(n) == "20260101_00000" \o IntStr(n)

\* report_dir
ReportDir(n) == Join(Root, "reports/reorg/" \o now_stamp(n))

\* safe_mkdir(p): the directories afterwards and whether mkdir returned; it
\* raises when p or a directory above it is a regular file
safe_mkdir(tree, ds, p) ==
    IF Ancestors(p) \cap DOMAIN tree = {}
    THEN [dirs |-> ds \cup Ancestors(p), ok |-> TRUE]
    ELSE [dirs |-> ds, ok |-> FALSE]

\* safe_mkdir over the first n directories of a list, up to the first that raises
RECURSIVE MkdirAll(_, _, _, _)
MkdirAll(tree, ds, list, n) ==
    IF n = 0 THEN [dirs |-> ds, ok |-> TRUE]
    ELSE LET before == MkdirAll(tree, ds, list, n - 1)
         IN  IF before.ok THEN safe_mkdir(tree, before.dirs, list[n]) ELSE before

\* root / d for d in planned_dirs, followed by report_dir
PlannedDirs(n) ==
    [i \in 1..Len(REPO_LAYOUT \o ARCHIVE_SUBFOLDERS) |-> Join(Root, (REPO_LAYOUT \o ARCHIVE_SUBFOLDERS)[i])]
        \o <<ReportDir(n)>>

\* parent / f"{stem}__{i}{suffix}"
Candidate(dest, i) ==
    Join(PathParent(dest),
         PathStem(PathName(dest)) \o "__" \o IntStr(i) \o PathSuffix(PathName(dest)))

\* A move_file that moves to dest whether or not it is occupied
FreeDestOverwrite(tree, ds, dest) == dest

\* A move_file whose search for an unused name starts at 1
FreeDestFromOne(tree, ds, dest) ==
    IF Exists(tree, ds, dest)
    THEN LET n == Cardinality(DOMAIN tree) + Cardinality(ds) + 2
             i == CHOOSE k \in 1..n :
                      /\ ~Exists(tree, ds, Candidate(dest, k))
                      /\ \A j \in 1..(k - 1) : Exists(tree, ds, Candidate(dest, j))
         IN  Candidate(dest, i)
    ELSE dest

\* The path move_file moves to: dest, or the first unused candidate from 2 on
FreeDest(tree, ds, dest) ==
    IF Exists(tree, ds, dest)
    THEN LET n == Cardinality(DOMAIN tree) + Cardinality(ds) + 2
             i == CHOOSE k \in 2..n :
                      /\ ~Exists(tree, ds, Candidate(dest, k))
                      /\ \A j \in 2..(k - 1) : Exists(tree, ds, Candidate(dest, j))
         IN  Candidate(dest, i)
    ELSE dest

\* move_file(src, dest): the tree, the directories, and whether it returned
move_file(tree, ds, src, dest) ==
    LET made == safe_mkdir(tree, ds, PathParent(dest))
        to == FreeDest(tree, made.dirs, dest)
    IN  IF made.ok
        THEN [fs |-> With(Without(tree, src), to, tree[src]), dirs |-> made.dirs, ok |-> TRUE]
        ELSE [fs |-> tree, dirs |-> ds, ok |-> FALSE]

\* An inode number no file of the tree has
FreshIno(tree) ==
    IF DOMAIN tree = {} THEN 1
    ELSE 1 + (CHOOSE m \in {tree[p].ino : p \in DOMAIN tree} : \A q \in DOMAIN tree : tree[q].ino <= m)

\* open(path, "w") and the write: a new file, or new bytes in the file there is
WriteFile(tree, path, content, mtime) ==
    With(tree, path,
         [content |-> content, mtime |-> mtime,
          ino |-> IF path \in DOMAIN tree THEN tree[path].ino ELSE FreshIno(tree),
          statable |-> TRUE, readable |-> TRUE])

\* report_csv and report_json
ReportCsv(n) == Join(ReportDir(n), "reorg_report.csv")
ReportJson(n) == Join(ReportDir(n), "reorg_report.json")

(***************************************************************************)
(* The trees a behaviour can start from: up to MaxFiles of these files,    *)
(* with at most NContents different contents and NTimes different          *)
(* modification times.  The program compares contents for equality and     *)
(* times for order only, so the contents are numbered in order of first    *)
(* appearance and the times used are 1..m.                                 *)
(***************************************************************************)
Candidates ==
    <<"old/a.txt",
      "x/a.txt",
      "docs/misc/a.txt",
      "archive/_not_needed/b.zip",
      "b.zip">>

Tree(S, content, mtime) ==
    [p \in {Join(Root, Candidates[i]) : i \in S} |->
        LET i == CHOOSE k \in S : Join(Root, Candidates[k]) = p
        IN  [content |-> content[i], mtime |-> mtime[i], ino |-> i,
             statable |-> TRUE, readable |-> TRUE]]

\* The contents are numbered in order of first appearance
ContentsInOrder(S, content) ==
    \A i \in S : content[i] = 1 \/ \E j \in S : j < i /\ content[j] = content[i] - 1

\* The times used are 1..m
TimesDense(S, mtime) ==
    \A i \in S : mtime[i] = 1 \/ \E j \in S : mtime[j] = mtime[i] - 1

NoProbe ==
    [rel |-> "", name |-> "", dest |-> "", reason |-> "", not_needed |-> "", done |-> FALSE,
     again |-> ""]

Init ==
    /\ \E S \in SUBSET (1..Len(Candidates)) :
          /\ Cardinality(S) \in 1..MaxFiles
          /\ \E content \in [S -> 1..NContents], mtime \in [S -> 1..NTimes] :
                /\ ContentsInOrder(S, content)
                /\ TimesDense(S, mtime)
                /\ fs = Tree(S, content, mtime)
    /\ dirs = UNION {Ancestors(PathParent(p)) : p \in DOMAIN fs}
    /\ hashing \in BOOLEAN
    /\ order \in {"asc", "desc"}
    /\ pc = "idle"
    /\ runs = 0
    /\ apply = FALSE
    /\ scanFs = fs
    /\ records = <<>>
    /\ dup_paths = {}
    /\ actions = <<>>
    /\ idx = 1
    /\ probe = NoProbe
    /\ PolishIdle

(***************************************************************************)
(* The steps of main().                                                    *)
(***************************************************************************)
\* A run starts: arguments, scan, duplicates, plan, and the plan printed; a
\* p.stat() that raises during the scan ends the run before anything is planned
Run(a) ==
    /\ pc \in {"idle", "done", "crashed"}
    /\ runs < MaxRuns
    /\ IF ScanAborts(fs, order)
       THEN /\ records' = <<>>
            /\ dup_paths' = {}
            /\ actions' = <<>>
            /\ pc' = "crashed"
       ELSE LET plan == Plan(fs, order, [apply |-> a, hash |-> hashing])
            IN  /\ records' = plan.records
                /\ dup_paths' = plan.dup_paths
                /\ actions' = plan.actions
                /\ pc' = "planned"
    /\ runs' = runs + 1
    /\ apply' = a
    /\ scanFs' = fs
    /\ idx' = 1
    /\ UNCHANGED <<fs, dirs, hashing, order, probe, polishVars>>

\* MakeDirs without the test of args.apply
MakeDirsAlways ==
    /\ pc = "planned"
    /\ LET made == MkdirAll(fs, dirs, PlannedDirs(runs), Len(PlannedDirs(runs)))
       IN  /\ dirs' = made.dirs
           /\ pc' = IF made.ok THEN "applying" ELSE "crashed"
    /\ UNCHANGED <<fs, hashing, order, runs, apply, scanFs, records, dup_paths, actions, idx, probe, polishVars>>

\* The layout directories and the report directory are created
MakeDirs ==
    /\ pc = "planned"
    /\ apply
    /\ LET made == MkdirAll(fs, dirs, PlannedDirs(runs), Len(PlannedDirs(runs)))
       IN  /\ dirs' = made.dirs
           /\ pc' = IF made.ok THEN "applying" ELSE "crashed"
    /\ UNCHANGED <<fs, hashing, order, runs, apply, scanFs, records, dup_paths, actions, idx, probe, polishVars>>

\* A loop turn that calls move_file without the test of src.exists(): the
\* move of a missing source raises
MoveMissingRaises ==
    /\ pc = "applying"
    /\ idx <= Len(actions)
    /\ LET src == actions[idx][1]
           dst == actions[idx][2]
           moved == move_file(fs, dirs, src, dst)
       IN  IF ~Exists(fs, dirs, src)
           THEN pc' = "crashed" /\ UNCHANGED <<fs, dirs>>
           ELSE IF ReportDir(runs) \in Ancestors(PathParent(src))
           THEN UNCHANGED <<fs, dirs, pc>>
           ELSE /\ fs' = moved.fs
                /\ dirs' = moved.dirs
                /\ pc' = IF moved.ok THEN "applying" ELSE "crashed"
    /\ idx' = idx + 1
    /\ UNCHANGED <<hashing, order, runs, apply, scanFs, records, dup_paths, actions, probe, polishVars>>

\* One turn of the "execute moves" loop
Move ==
    /\ pc = "applying"
    /\ idx <= Len(actions)
    /\ LET src == actions[idx][1]
           dst == actions[idx][2]
           moved == move_file(fs, dirs, src, dst)
       IN  IF ~Exists(fs, dirs, src)
           THEN UNCHANGED <<fs, dirs, pc>>
           ELSE IF ReportDir(runs) \in Ancestors(PathParent(src))
           THEN UNCHANGED <<fs, dirs, pc>>
           ELSE /\ fs' = moved.fs
                /\ dirs' = moved.dirs
                /\ pc' = IF moved.ok THEN "applying" ELSE "crashed"
    /\ idx' = idx + 1
    /\ UNCHANGED <<hashing, order, runs, apply, scanFs, records, dup_paths, actions, probe, polishVars>>

\* The loop is over: the reports are written to disk
WriteReports ==
    /\ pc = "applying"
    /\ idx > Len(actions)
    /\ dirs' = safe_mkdir(fs, dirs, ReportDir(runs)).dirs
    /\ fs' = WriteFile(WriteFile(fs, ReportCsv(runs), NContents + 2 * runs - 1, NTimes + runs),
                       ReportJson(runs), NContents + 2 * runs, NTimes + runs)
    /\ pc' = "done"
    /\ UNCHANGED <<hashing, order, runs, apply, scanFs, records, dup_paths, actions, idx, probe, polishVars>>

\* A dry run ends with the summary on the console
DrySummary ==
    /\ pc = "planned"
    /\ ~apply
    /\ pc' = "done"
    /\ UNCHANGED <<fs, dirs, hashing, order, runs, apply, scanFs, records, dup_paths, actions, idx, probe, polishVars>>

Next ==
    \/ \E a \in BOOLEAN : Run(a)
    \/ MakeDirs
    \/ Move
    \/ WriteReports
    \/ DrySummary

Spec == Init /\ [][Next]_vars

(***************************************************************************)
(* The apply loop beside another process: between the scan and the move of *)
(* a file, the file can go away (removed or renamed by someone else), once *)
(* in a run.                                                               *)
(***************************************************************************)
\* The source of a pending action is removed by another process
Vanish ==
    /\ pc = "applying"
    /\ Cardinality(DOMAIN fs) = Cardinality(DOMAIN scanFs)
    /\ \E k \in idx..Len(actions) :
          /\ actions[k][1] \in DOMAIN fs
          /\ fs' = Without(fs, actions[k][1])
    /\ UNCHANGED <<dirs, hashing, order, pc, runs, apply, scanFs, records, dup_paths, actions, idx, probe, polishVars>>

RaceNext ==
    \/ \E a \in BOOLEAN : Run(a)
    \/ MakeDirs
    \/ Move
    \/ WriteReports
    \/ DrySummary
    \/ Vanish

RaceSpec == Init /\ [][RaceNext]_vars

(***************************************************************************)
(* Properties of the planner and of the apply loop.                        *)
(***************************************************************************)
\* The files of a tree without their paths: inode, content and time
FilesOf(tree) == {tree[p] : p \in DOMAIN tree}

\* The sources of the actions the loop has been through
SourcesDone == {actions[j][1] : j \in 1..(idx - 1)}

\* C1: while the planned moves execute, after any prefix of the action list,
\* the files that were present at scan time are all still present with their
\* content (nothing overwritten, nothing deleted, nothing added), and every
\* file that is not the source of an executed action is at its path, unchanged.
C1_NoDataLoss ==
    pc = "applying" =>
        /\ FilesOf(fs) = FilesOf(scanFs)
        /\ Cardinality(DOMAIN fs) = Cardinality(DOMAIN scanFs)
        /\ \A q \in DOMAIN scanFs \ SourcesDone : q \in DOMAIN fs /\ fs[q] = scanFs[q]

\* The file that was at path q at scan time is now at a path that is neither q
\* nor the planned destination: move_file gave it a suffixed name
Suffixed(j) ==
    \E p \in DOMAIN fs :
        /\ fs[p].ino = scanFs[actions[j][1]].ino
        /\ p # actions[j][1]
        /\ p # actions[j][2]

\* C1 witness: a run has executed all its moves, of three different action
\* types, and one of them met an occupied destination.
C1_Witness ==
    /\ pc = "applying"
    /\ idx > Len(actions)
    /\ Cardinality({records[i].action : i \in 1..Len(records)} \ {KEEP_IN_PLACE}) >= 3
    /\ \E j \in 1..Len(actions) : Suffixed(j)

\* What the planner's checks say of the i-th record
IsDup(i) == hashing /\ records[i].abs_path \in dup_paths
FilterFires(i) == classify_not_needed(records[i].abs_path, records[i].rel_path) # None
UnderArchive(i) == StartsWith(lower(records[i].rel_path), "archive/")
ClassifiedDest(i) == choose_destination(records[i].rel_path, PathName(records[i].abs_path))[1]

\* The (source, destination) entries of the records that are not kept in place, in order
RECURSIVE EntriesOf(_, _)
EntriesOf(recs, n) ==
    IF n = 0 THEN <<>>
    ELSE EntriesOf(recs, n - 1) \o
         (IF recs[n].action = KEEP_IN_PLACE THEN <<>>
          ELSE << <<recs[n].abs_path, Join(Root, recs[n].dest_rel_path)>> >>)

\* C3: after planning there is one record per scanned file, each with the
\* action of the first check that matches it (duplicate, not needed, then the
\* classified destination with KEEP_IN_PLACE exactly when that destination is
\* the file's own path), and the action list holds one entry for each record
\* that is not KEEP_IN_PLACE, in order, and nothing else.
C3_OneActionFirstMatch ==
    pc # "idle" =>
        /\ Len(records) = Cardinality(DOMAIN scanFs)
        /\ {records[i].abs_path : i \in 1..Len(records)} = DOMAIN scanFs
        /\ \A i \in 1..Len(records) :
              /\ IsDup(i) => records[i].action = MOVE_TO_ARCHIVE_DUPLICATE
              /\ ~IsDup(i) /\ FilterFires(i) /\ ~UnderArchive(i)
                    => records[i].action = MOVE_TO_ARCHIVE_NOT_NEEDED
              /\ ~IsDup(i) /\ ~(FilterFires(i) /\ ~UnderArchive(i))
                    => /\ records[i].action \in {KEEP_IN_PLACE, MOVE_TO_DEST, MOVE_TO_ARCHIVE_UNKNOWN}
                       /\ records[i].dest_rel_path = ClassifiedDest(i)
                       /\ records[i].action = KEEP_IN_PLACE <=> ClassifiedDest(i) = records[i].rel_path
        /\ actions = EntriesOf(records, Len(records))

\* C3 witness: a plan with a duplicate that the not-needed filter matches too,
\* a record kept in place and a record moved to its classified destination.
C3_Witness ==
    /\ pc = "planned"
    /\ \E i \in 1..Len(records) : IsDup(i) /\ FilterFires(i) /\ ~UnderArchive(i)
    /\ \E i \in 1..Len(records) : records[i].action = KEEP_IN_PLACE
    /\ \E i \in 1..Len(records) : records[i].action = MOVE_TO_DEST

\* C5: the tree (files and directories) changes only in a step of a run with
\* --apply that has its plan; a run without --apply changes nothing.
C5_DryRunFrame ==
    [][(fs' # fs \/ dirs' # dirs) => (apply /\ apply' /\ pc \in {"planned", "applying"})]_vars

\* C5 witness: a dry run that planned moves has ended and the tree is as scanned.
C5_Witness ==
    /\ pc = "done"
    /\ ~apply
    /\ Len(actions) >= 2
    /\ fs = scanFs

\* The records that share the digest of the i-th record
GroupOf(i) == {j \in 1..Len(records) : records[j].sha256 = records[i].sha256}

\* The members of a group that are not marked as duplicates
KeepersOf(G) == {j \in G : records[j].abs_path \notin dup_paths}

\* C6: with hashing, in every group of two or more files of one digest exactly
\* one member, the keeper, is not marked as a duplicate, every other member
\* gets the duplicate action, and the keeper is the first in scan order among
\* the members of greatest modification time.
C6_KeeperSelection ==
    (pc # "idle" /\ hashing) =>
        \A i \in 1..Len(records) :
            Cardinality(GroupOf(i)) >= 2 =>
                /\ Cardinality(KeepersOf(GroupOf(i))) = 1
                /\ \A j \in GroupOf(i) \ KeepersOf(GroupOf(i)) :
                      records[j].action = MOVE_TO_ARCHIVE_DUPLICATE
                /\ \A k \in KeepersOf(GroupOf(i)) :
                      /\ records[k].action # MOVE_TO_ARCHIVE_DUPLICATE
                      /\ \A j \in GroupOf(i) :
                            /\ records[j].mtime <= records[k].mtime
                            /\ records[j].mtime = records[k].mtime => k <= j

\* C6 witness: a group of three files of one digest in which the two newest
\* have the same modification time.
C6_Witness ==
    /\ pc = "planned"
    /\ hashing
    /\ \E i \in 1..Len(records) :
          /\ Cardinality(GroupOf(i)) = 3
          /\ \E j, k \in GroupOf(i), l \in GroupOf(i) :
                /\ j < k
                /\ records[j].mtime = records[k].mtime
                /\ records[l].mtime < records[j].mtime

\* C10: in the plan, a file that is no duplicate and not under archive/ and
\* that the not-needed filter matches is archived as not needed at
\* archive/_not_needed/<name>, whatever the classifier returns; a duplicate
\* gets the duplicate action also when the filter matches; and a file under
\* archive/ is never archived as not needed.
C10_FilterPrecedence ==
    pc # "idle" =>
        \A i \in 1..Len(records) :
            /\ ~IsDup(i) /\ ~UnderArchive(i) /\ FilterFires(i)
                  => /\ records[i].action = MOVE_TO_ARCHIVE_NOT_NEEDED
                     /\ records[i].dest_rel_path =
                            "archive/_not_needed/" \o PathName(records[i].abs_path)
                     /\ \E j \in 1..Len(actions) :
                           actions[j] = <<records[i].abs_path,
                                          Join(Root, "archive/_not_needed/"
                                                         \o PathName(records[i].abs_path))>>
            /\ IsDup(i) => records[i].action = MOVE_TO_ARCHIVE_DUPLICATE
            /\ StartsWith(records[i].rel_path, "archive/")
                  => records[i].action # MOVE_TO_ARCHIVE_NOT_NEEDED

\* C10 witness: one plan holds a duplicate the filter matches, a file under
\* archive/ the filter matches, and a file archived as not needed although the
\* classifier has a destination for it.
C10_Witness ==
    /\ pc = "planned"
    /\ \E i \in 1..Len(records) : IsDup(i) /\ FilterFires(i)
    /\ \E i \in 1..Len(records) : UnderArchive(i) /\ FilterFires(i) /\ ~IsDup(i)
    /\ \E i \in 1..Len(records) :
          /\ records[i].action = MOVE_TO_ARCHIVE_NOT_NEEDED
          /\ ~StartsWith(ClassifiedDest(i), "archive/")

\* The file at path p after a run was at another path when that run scanned
Relocated(p) == \E q \in DOMAIN scanFs : scanFs[q].ino = fs[p].ino /\ q # p

\* C2: when a run with --apply has ended and the next run (same hashing flag)
\* has scanned and planned, every file the first run relocated is planned
\* KEEP_IN_PLACE, at its own path.
C2_ApplyIdempotent ==
    [][(pc = "done" /\ apply /\ pc' = "planned") =>
          \A i \in 1..Len(records') :
              Relocated(records'[i].abs_path) =>
                  /\ records'[i].action = KEEP_IN_PLACE
                  /\ records'[i].dest_rel_path = records'[i].rel_path]_vars

\* C4: a planning pass over the tree the previous pass scanned, untouched
\* since, in the same scan order and with the same hashing flag, yields the
\* records (action, reason, destination), the duplicates and the action list
\* of the previous pass, whether or not this run or the previous one applies.
C4_PlanDeterministic ==
    [][(runs >= 1 /\ pc' = "planned" /\ fs = scanFs) =>
          /\ records' = records
          /\ dup_paths' = dup_paths
          /\ actions' = actions]_vars

\* C4 witness: a run with --apply has planned, with moves of two kinds and
\* with duplicates, over the tree a dry run planned over before.
C4_Witness ==
    /\ pc = "planned"
    /\ runs = 2
    /\ apply
    /\ ReportCsv(1) \notin DOMAIN fs
    /\ dup_paths # {}
    /\ \E i \in 1..Len(records) : records[i].action = MOVE_TO_ARCHIVE_NOT_NEEDED

(***************************************************************************)
(* The two classifiers applied to single inputs: a relative path made of   *)
(* one of the directories and one of the names below, with the name that   *)
(* main() passes along, the last component of the path.                    *)
(***************************************************************************)
ProbeDirs ==
    {"", "m1", "Build_plan", "Build_plan/old", "old", "archive/_not_needed",
     "spec", "schema", "tools", "fixture", "golden", "snapshot", "notes"}

ProbeNames ==
    {"index.html", "INDEX.HTML",
     "MASTER_BUILD_PLAN_CONSOLIDATED.html", "Master_Build_Plan_Consolidated.HTML",
     "MASTER_BUILD_PLAN_CONSOLIDATED_V2.html", "master_build_plan_consolidated_v2.html",
     "page.html", "a.md", "a.json", "a.py", "a.png", "a.txt", "a.bin",
     "a.zip", "A.ZIP", "a.log"}

ProbeRel(d, n) == IF d = "" THEN n ELSE Join(d, n)

EmptyTree == [p \in {} |-> 0]

ProbeInit ==
    /\ \E d \in ProbeDirs, n \in ProbeNames :
          probe = [NoProbe EXCEPT !.rel = ProbeRel(d, n), !.name = n]
    /\ fs = EmptyTree
    /\ dirs = {Root}
    /\ hashing = FALSE
    /\ order = "asc"
    /\ pc = "idle"
    /\ runs = 0
    /\ apply = FALSE
    /\ scanFs = EmptyTree
    /\ records = <<>>
    /\ dup_paths = {}
    /\ actions = <<>>
    /\ idx = 1
    /\ PolishIdle

\* choose_destination and classify_not_needed are called as the planner calls them
Classify ==
    /\ ~probe.done
    /\ probe' = [probe EXCEPT
                    !.dest = choose_destination(probe.rel, probe.name)[1],
                    !.reason = choose_destination(probe.rel, probe.name)[2],
                    !.not_needed = classify_not_needed(Join(Root, probe.rel), probe.rel),
                    !.done = TRUE]
    /\ UNCHANGED <<fs, dirs, hashing, order, pc, runs, apply, scanFs, records, dup_paths, actions, idx, polishVars>>

\* The planner of a later run meets the file at the destination it was given:
\* choose_destination is called with that path and the same file name
Reclassify ==
    /\ probe.done
    /\ probe.again = ""
    /\ probe' = [probe EXCEPT !.again = choose_destination(probe.dest, probe.name)[1]]
    /\ UNCHANGED <<fs, dirs, hashing, order, pc, runs, apply, scanFs, records, dup_paths, actions, idx, polishVars>>

ProbeNext == Classify \/ Reclassify

ProbeSpec == ProbeInit /\ [][ProbeNext]_vars

\* The rule table of the classifier: whether rule i matches, and what it returns
RuleMatches(i, rel, name) ==
    LET rel_l == lower(rel)
        ext == lower(PathSuffix(name))
    IN  CASE i = 1 -> name \in CANONICAL_ROOT_FILES \/ lower(name) \in CANONICAL_ROOT_FILES
          [] i = 2 -> StartsWith(rel_l, "build_plan/")
          [] i = 3 -> ext = ".html" /\ \E h \in BUILD_PLAN_HINTS : Contains(rel_l, lower(h))
          [] i = 4 -> ext = ".md"
          [] i = 5 -> ext \in {".json", ".yaml", ".yml"}
                        /\ \E k \in {"schema", "contract", "spec"} : Contains(rel_l, k)
          [] i = 6 -> ext \in {".py", ".js", ".ts", ".tsx", ".jsx"}
          [] i = 7 -> ext \in {".png", ".jpg", ".jpeg", ".webp", ".gif", ".svg"}
          [] i = 8 -> \E k \in {"fixture", "toybook", "book1window"} : Contains(rel_l, k)
          [] i = 9 -> \E k \in {"golden", "snapshot", "expected_output"} : Contains(rel_l, k)
          [] i = 10 -> ext \in KEEP_EXTENSIONS
          [] i = 11 -> TRUE

RuleReturns(i, rel, name) ==
    LET rel_l == lower(rel)
    IN  CASE i = 1 -> <<"Build_plan/" \o name, "Canonical plan entrypoint">>
          [] i = 2 -> <<rel, "Already in Build_plan">>
          [] i = 3 -> <<"Build_plan/" \o name, "HTML appears to be build-plan related">>
          [] i = 4 -> IF \E k \in {"contract", "schema", "spec"} : Contains(rel_l, k)
                      THEN <<"spec/" \o name, "Spec-like markdown">>
                      ELSE <<"docs/" \o name, "General markdown documentation">>
          [] i = 5 -> <<"spec/" \o name, "Schema/contract file">>
          [] i = 6 -> IF \E k \in {"tool", "script", "build", "validate", "export"} : Contains(rel_l, k)
                      THEN <<"tools/" \o name, "Tooling script">>
                      ELSE <<"src/" \o name, "Source code">>
          [] i = 7 -> IF \E k \in {"build_plan", "micro", "reader", "module", "m0", "m1", "m2",
                                   "m3", "m4", "m5", "m6", "m7", "m8"} : Contains(rel_l, k)
                      THEN <<"Build_plan/assets/" \o name, "Build-plan asset image">>
                      ELSE <<"docs/assets/" \o name, "Documentation asset image">>
          [] i = 8 -> <<"fixtures/" \o name, "Fixture file">>
          [] i = 9 -> <<"golden/" \o name, "Golden output">>
          [] i = 10 -> <<"docs/misc/" \o name, "Misc keep-extension file">>
          [] i = 11 -> <<"archive/_unknown_review/" \o name, "Unknown file type; review">>

FirstRule(rel, name) ==
    CHOOSE i \in 1..11 : RuleMatches(i, rel, name) /\ \A j \in 1..(i - 1) : ~RuleMatches(j, rel, name)

\* C7: choose_destination returns the destination and the reason of the
\* lowest-numbered rule of the table that matches; a file named index.html
\* outside Build_plan/ goes to Build_plan/index.html by rule 1.
C7_FirstMatch ==
    probe.done =>
        /\ <<probe.dest, probe.reason>> = RuleReturns(FirstRule(probe.rel, probe.name), probe.rel, probe.name)
        /\ (probe.name = "index.html" /\ ~StartsWith(probe.rel, "Build_plan/"))
              => /\ probe.dest = "Build_plan/index.html"
                 /\ probe.reason = "Canonical plan entrypoint"

\* C7 witness: m1/index.html, which rule 1 and rule 3 both match, was classified.
C7_Witness ==
    /\ probe.done
    /\ probe.rel = "m1/index.html"
    /\ RuleMatches(1, probe.rel, probe.name)
    /\ RuleMatches(3, probe.rel, probe.name)
    /\ probe.reason = "Canonical plan entrypoint"

\* The canonical entrypoint names
CanonicalNames ==
    {"MASTER_BUILD_PLAN_CONSOLIDATED.html", "MASTER_BUILD_PLAN_CONSOLIDATED_V2.html", "index.html"}

\* C8: a name that equals a canonical entrypoint name when letter case is
\* ignored is sent to Build_plan/<name> with the canonical-entrypoint reason,
\* in whatever directory it is.
C8_CaseInsensitive ==
    (probe.done /\ lower(probe.name) \in {lower(n) : n \in CanonicalNames}) =>
        /\ probe.dest = "Build_plan/" \o probe.name
        /\ probe.reason = "Canonical plan entrypoint"

\* C9: classify_not_needed returns the packaged-artifact reason for every
\* extension of the packaging/backup/log set, wherever the file is; for
\* another extension it returns the export/backup/temp reason exactly when the
\* lower-cased path contains one of the tokens and does not contain
\* build_plan; otherwise it returns None.
C9_NotNeededFilter ==
    probe.done =>
        LET ext == lower(PathSuffix(probe.name))
            rel_l == lower(probe.rel)
            token == \E k \in {"old", "backup", "export", "exports", "tmp", "temp"} : Contains(rel_l, k)
            plan == Contains(rel_l, "build_plan")
        IN  /\ ext \in {".zip", ".7z", ".rar", ".bak", ".tmp", ".log"}
                  => probe.not_needed = "Packaged artifact (" \o ext \o ")"
            /\ (ext \notin {".zip", ".7z", ".rar", ".bak", ".tmp", ".log"} /\ token /\ ~plan)
                  => probe.not_needed = "Looks like export/backup/temp"
            /\ (ext \notin {".zip", ".7z", ".rar", ".bak", ".tmp", ".log"} /\ (~token \/ plan))
                  => probe.not_needed = None

\* C9 witness: an archive bundle under Build_plan/old/ was given the
\* packaged-artifact reason.
C9_Witness ==
    /\ probe.done
    /\ probe.rel = "Build_plan/old/A.ZIP"
    /\ probe.not_needed = "Packaged artifact (.zip)"

(***************************************************************************)
(* Properties of move_file and of the "execute moves" loop.                *)
(***************************************************************************)
\* The step is a turn of the loop in which move_file was called and returned
MoveReturned ==
    /\ pc = "applying"
    /\ idx <= Len(actions)
    /\ idx' = idx + 1
    /\ pc' = "applying"
    /\ Exists(fs, dirs, actions[idx][1])
    /\ ReportDir(runs) \notin Ancestors(PathParent(actions[idx][1]))

\* <stem>__<i><suffix> beside dest
SuffixedName(dest, i) ==
    LET name == PathName(dest)
    IN  PathParent(dest) \o "/" \o PathStem(name) \o "__" \o IntStr(i) \o PathSuffix(name)

\* C11: a move to a free destination puts the file exactly there; a move to
\* an occupied destination puts it at <stem>__<i><suffix> in the same
\* directory for the smallest i >= 2 whose name is unused; either way every
\* other file keeps its path and its content.
C11_CollisionPolicy ==
    [][MoveReturned =>
          LET src == actions[idx][1]
              dst == actions[idx][2]
              to == IF Exists(fs, dirs, dst)
                    THEN SuffixedName(dst, CHOOSE i \in 2..(Cardinality(DOMAIN fs) + Cardinality(dirs') + 2) :
                                               /\ ~Exists(fs, dirs', SuffixedName(dst, i))
                                               /\ \A j \in 2..(i - 1) : Exists(fs, dirs', SuffixedName(dst, j)))
                    ELSE dst
          IN  /\ Exists(fs, dirs, dst) =>
                    \E i \in 2..(Cardinality(DOMAIN fs) + Cardinality(dirs') + 2) :
                        ~Exists(fs, dirs', SuffixedName(dst, i))
              /\ DOMAIN fs' = (DOMAIN fs \ {src}) \cup {to}
              /\ fs'[to] = fs[src]
              /\ \A q \in DOMAIN fs \ {src} : fs'[q] = fs[q]]_vars

\* C11 witness: two moves of one batch had the same destination; the file of
\* the first is at the plain name and the file of the second at the name
\* with __2.
C11_Witness ==
    /\ pc = "applying"
    /\ \E j \in 1..(idx - 1), k \in 1..(idx - 1) :
          /\ j < k
          /\ actions[j][2] = actions[k][2]
          /\ actions[j][2] \notin DOMAIN scanFs
          /\ actions[j][2] \in DOMAIN fs
          /\ fs[actions[j][2]] = scanFs[actions[j][1]]
          /\ SuffixedName(actions[k][2], 2) \in DOMAIN fs
          /\ fs[SuffixedName(actions[k][2], 2)] = scanFs[actions[k][1]]

\* C12: a turn of the loop whose source does not exist changes neither the
\* files nor the directories, raises nothing, and leaves the loop at the
\* next action.
C12_MissingSourceSkipped ==
    [][(pc = "applying" /\ idx <= Len(actions) /\ idx' # idx
           /\ ~Exists(fs, dirs, actions[idx][1])) =>
          /\ fs' = fs
          /\ dirs' = dirs
          /\ pc' = "applying"
          /\ idx' = idx + 1]_vars

\* C12 witness: the source of one action had gone, the loop went past it and
\* moved the file of a later action.
C12_Witness ==
    /\ pc = "applying"
    /\ \E j \in 1..(idx - 1), k \in 1..(idx - 1) :
          /\ j < k
          /\ scanFs[actions[j][1]].ino \notin {fs[p].ino : p \in DOMAIN fs}
          /\ actions[k][1] \notin DOMAIN fs
          /\ \E p \in DOMAIN fs : fs[p].ino = scanFs[actions[k][1]].ino

(***************************************************************************)
(* tools/polish_links.py: strings, the attribute pattern and URL parsing.  *)
(***************************************************************************)
\* The i-th character of s
CharAt(s, i) == SubSeq(s, i, i)

\* s[a-1:b], for a >= 1: the characters from the a-th to the b-th that s has
Slice(s, a, b) ==
    IF a > Len(s) \/ b < a THEN "" ELSE SubSeq(s, a, IF b > Len(s) THEN Len(s) ELSE b)

\* The printable ASCII characters in code order: from the space (code 32)
\* to the underscore (95), and from a (97) to the tilde (126)
AsciiLow == " !\"#$%&'()*+,-./0123456789:;<=>?@ABCDEFGHIJKLMNOPQRSTUVWXYZ[\\]^_"
AsciiHigh == "abcdefghijklmnopqrstuvwxyz{|}~"

\* ord(c), for the characters of the model: the printable ASCII characters,
\* the tab, the line feed and the carriage return
Ord(c) ==
    IF \E i \in 1..Len(AsciiLow) : CharAt(AsciiLow, i) = c
    THEN 31 + (CHOOSE i \in 1..Len(AsciiLow) : CharAt(AsciiLow, i) = c)
    ELSE IF \E i \in 1..Len(AsciiHigh) : CharAt(AsciiHigh, i) = c
    THEN 96 + (CHOOSE i \in 1..Len(AsciiHigh) : CharAt(AsciiHigh, i) = c)
    ELSE IF c = "\t" THEN 9 ELSE IF c = "\n" THEN 10 ELSE 13

\* a < b for strings, as Python compares them: by the first differing
\* character, a proper prefix being smaller
RECURSIVE StrLessFrom(_, _, _)
StrLessFrom(a, b, i) ==
    IF i > Len(b) THEN FALSE
    ELSE IF i > Len(a) THEN TRUE
    ELSE IF CharAt(a, i) = CharAt(b, i) THEN StrLessFrom(a, b, i + 1)
    ELSE Ord(CharAt(a, i)) < Ord(CharAt(b, i))

StrLess(a, b) == StrLessFrom(a, b, 1)

\* \s and \w of the pattern language, for the characters of the model
IsSpace(c) == c \in {" ", "\t", "\n", "\r"}
IsWordChar(c) ==
    \E i \in 1..63 : CharAt("abcdefghijklmnopqrstuvwxyzABCDEFGHIJKLMNOPQRSTUVWXYZ0123456789_", i) = c
IsLetter(c) ==
    \E i \in 1..52 : CharAt("abcdefghijklmnopqrstuvwxyzABCDEFGHIJKLMNOPQRSTUVWXYZ", i) = c
IsQuote(c) == c \in {"\"", "'"}

\* The first position from i on whose character is not white space
RECURSIVE SkipSpace(_, _)
SkipSpace(s, i) == IF i <= Len(s) /\ IsSpace(CharAt(s, i)) THEN SkipSpace(s, i + 1) ELSE i

\* The first position from i on whose character is a quote; Len(s) + 1 if none
RECURSIVE NextQuote(_, _)
NextQuote(s, i) == IF i <= Len(s) /\ ~IsQuote(CharAt(s, i)) THEN NextQuote(s, i + 1) ELSE i

\* s.find(c, i - 1) + 1 for a character c: the first position from i on that
\* holds c; 0 when there is none
FindFrom(s, c, i) ==
    LET hits == {k \in i..Len(s) : CharAt(s, k) = c}
    IN  IF hits = {} THEN 0 ELSE CHOOSE k \in hits : \A j \in hits : k <= j

\* v.strip()
RECURSIVE RStrip(_)
RStrip(s) == IF s # "" /\ IsSpace(CharAt(s, Len(s))) THEN RStrip(SubSeq(s, 1, Len(s) - 1)) ELSE s
Strip(v) == RStrip(SubSeq(v, SkipSpace(v, 1), Len(v)))

SKIP_PREFIXES == <<"http://", "https://", "mailto:", "tel:", "#", "javascript:">>

\* No match of the pattern at a position
NoMatch == [attr |-> "", val |-> "", start |-> 0, end |-> 0, stop |-> 0]

\* ATTR_RE matched at position i of the text (counted from 1): the groups
\* attr and val, m.start("val") and m.end("val") as Python counts them, and
\* the position of the closing quote; NoMatch when it does not match there
AttrMatchAt(text, i) ==
    LET word == IF lower(Slice(text, i, i + 3)) = "href" THEN Slice(text, i, i + 3)
                ELSE IF lower(Slice(text, i, i + 2)) = "src" THEN Slice(text, i, i + 2)
                ELSE ""
        eq == SkipSpace(text, i + Len(word))
        quote == SkipSpace(text, eq + 1)
        close == NextQuote(text, quote + 1)
    IN  IF /\ word # ""
           /\ (i = 1 \/ ~IsWordChar(CharAt(text, i - 1)))
           /\ (i + Len(word) > Len(text) \/ ~IsWordChar(CharAt(text, i + Len(word))))
           /\ eq <= Len(text) /\ CharAt(text, eq) = "="
           /\ quote <= Len(text) /\ IsQuote(CharAt(text, quote))
           /\ close <= Len(text)
           /\ close > quote + 1
        THEN [attr |-> word, val |-> SubSeq(text, quote + 1, close - 1),
              start |-> quote, end |-> close - 1, stop |-> close]
        ELSE NoMatch

\* ATTR_RE.finditer(text) from position i on: the matches from left to
\* right, each search starting where the match before it ended
RECURSIVE FindIter(_, _)
FindIter(text, i) ==
    LET hits == {k \in i..Len(text) : AttrMatchAt(text, k) # NoMatch}
    IN  IF hits = {} THEN <<>>
        ELSE LET first == CHOOSE k \in hits : \A j \in hits : k <= j
                 m == AttrMatchAt(text, first)
             IN  <<m>> \o FindIter(text, m.stop + 1)

\* is_external(v)
is_external(v) ==
    \E k \in 1..Len(SKIP_PREFIXES) : StartsWith(lower(Strip(v)), SKIP_PREFIXES[k])

\* re.match(r"^[A-Za-z]:[\\/]", val)
IsDiskPath(val) ==
    /\ Len(val) >= 3
    /\ IsLetter(CharAt(val, 1))
    /\ CharAt(val, 2) = ":"
    /\ CharAt(val, 3) \in {"\\", "/"}

\* The string s without the characters tab, carriage return and line feed
RECURSIVE RemoveUnsafe(_)
RemoveUnsafe(s) ==
    LET hits == {k \in 1..Len(s) : CharAt(s, k) \in {"\t", "\r", "\n"}}
        first == CHOOSE k \in hits : \A j \in hits : k <= j
    IN  IF hits = {} THEN s
        ELSE Slice(s, 1, first - 1) \o RemoveUnsafe(Slice(s, first + 1, Len(s)))

\* The characters a URL scheme is made of
IsSchemeChar(c) ==
    \E i \in 1..65 : CharAt("abcdefghijklmnopqrstuvwxyzABCDEFGHIJKLMNOPQRSTUVWXYZ0123456789+-.", i) = c

\* The schemes whose path can carry ;parameters
uses_params ==
    {"", "ftp", "hdl", "prospero", "http", "imap", "https", "shttp", "rtsp", "rtspu",
     "sip", "sips", "mms", "sftp", "tel"}

\* The least position among the first "/", "?" and "#" of s from i on;
\* Len(s) + 1 when there is none
RECURSIVE NetlocEnd(_, _)
NetlocEnd(s, i) ==
    IF i <= Len(s) /\ CharAt(s, i) \notin {"/", "?", "#"} THEN NetlocEnd(s, i + 1) ELSE i

\* A value computed once and named in what follows, as a local variable is
LetIn(value, In(_)) == In(value)

\* s.partition(c) without the separator: what is before the first c of s
\* and what is after it; all of s and "" when s holds no c
Partition(s, c) ==
    LET k == FindFrom(s, c, 1)
    IN  IF k = 0 THEN <<s, "">> ELSE <<Slice(s, 1, k - 1), Slice(s, k + 1, Len(s))>>

\* urlsplit, the scheme: the text before the first colon, when it starts
\* with a letter and holds scheme characters only, and the rest
SplitScheme(url) ==
    LET colon == FindFrom(url, ":", 1)
    IN  IF /\ colon > 1
           /\ IsLetter(CharAt(url, 1))
           /\ \A i \in 1..(colon - 1) : IsSchemeChar(CharAt(url, i))
        THEN <<lower(Slice(url, 1, colon - 1)), Slice(url, colon + 1, Len(url))>>
        ELSE <<"", url>>

\* urlsplit, the netloc: what follows a leading // up to the first of / ? #
SplitNetloc(url) ==
    IF Slice(url, 1, 2) = "//"
    THEN <<Slice(url, 3, NetlocEnd(url, 3) - 1), Slice(url, NetlocEnd(url, 3), Len(url))>>
    ELSE <<"", url>>

\* urlparse, the parameters: for a scheme of uses_params, what follows the
\* first ; of the last path segment
SplitParams(scheme, url) ==
    LET semi == IF scheme \in uses_params
                THEN FindFrom(url, ";", IF RFind(url, "/") > 0 THEN RFind(url, "/") ELSE 1)
                ELSE 0
    IN  IF semi > 0 THEN <<Slice(url, 1, semi - 1), Slice(url, semi + 1, Len(url))>>
        ELSE <<url, "">>

\* urllib.parse.urlparse(v): scheme, netloc, path, params, query, fragment
urlparse(v) ==
    LetIn(SplitScheme(RemoveUnsafe(Slice(v, SkipSpace(v, 1), Len(v)))), LAMBDA s :
    LetIn(SplitNetloc(s[2]), LAMBDA n :
    LetIn(Partition(n[2], "#"), LAMBDA f :
    LetIn(Partition(f[1], "?"), LAMBDA q :
    LetIn(SplitParams(s[1], q[1]), LAMBDA p :
        [scheme |-> s[1], netloc |-> n[1], path |-> p[1], params |-> p[2],
         query |-> q[2], fragment |-> f[2]])))))

\* The value of a hexadecimal digit; 16 for another character
HexValue(c) ==
    IF \E i \in 1..16 : CharAt("0123456789abcdef", i) = lower(c)
    THEN (CHOOSE i \in 1..16 : CharAt("0123456789abcdef", i) = lower(c)) - 1
    ELSE 16

\* chr(n) for the codes of the printable ASCII characters of the model
Chr(n) == IF n <= 95 THEN CharAt(AsciiLow, n - 31) ELSE CharAt(AsciiHigh, n - 96)

\* urllib.parse.unquote(s): %XX becomes the character of code XX (escapes
\* of printable ASCII characters; a % that two hexadecimal digits do not
\* follow stays)
RECURSIVE unquote(_)
unquote(s) ==
    LET k == FindFrom(s, "%", 1)
        code == 16 * HexValue(CharAt(s, k + 1)) + HexValue(CharAt(s, k + 2))
    IN  IF k = 0 THEN s
        ELSE IF /\ Len(s) >= k + 2
                /\ HexValue(CharAt(s, k + 1)) < 16
                /\ HexValue(CharAt(s, k + 2)) < 16
                /\ code \in (32..95) \cup (97..126)
        THEN Slice(s, 1, k - 1) \o Chr(code) \o unquote(Slice(s, k + 3, Len(s)))
        ELSE Slice(s, 1, k) \o unquote(Slice(s, k + 1, Len(s)))

\* strip_fragment_query(v)
strip_fragment_query(v) == unquote(urlparse(v).path)

\* preserve_suffix(original, new_path_only)
preserve_suffix(original, new_path_only) ==
    LetIn(urlparse(original), LAMBDA parsed :
        new_path_only
            \o (IF parsed.query # "" THEN "?" \o parsed.query ELSE "")
            \o (IF parsed.fragment # "" THEN "#" \o parsed.fragment ELSE ""))

(***************************************************************************)
(* tools/polish_links.py: paths.  A path is a string; its parts are the    *)
(* segments between the separators.                                        *)
(***************************************************************************)
\* The segments of s between the "/"s, from position i on
RECURSIVE SegmentsFrom(_, _)
SegmentsFrom(s, i) ==
    IF i > Len(s) THEN <<>>
    ELSE LET j == FindFrom(s, "/", i)
         IN  IF j = 0 THEN <<Slice(s, i, Len(s))>>
             ELSE <<Slice(s, i, j - 1)>> \o SegmentsFrom(s, j + 1)

\* Path(s).parts without the root: the segments that are neither empty nor "."
PartsOf(s) ==
    LET Named(x) == x # "" /\ x # "."
    IN  SelectSeq(SegmentsFrom(s, 1), Named)

\* Path.resolve() on the parts of an absolute path (no symbolic links), from
\* the i-th part on, done being the parts resolved so far: ".." takes the
\* part before it away; at the root it is dropped
RECURSIVE ResolveFrom(_, _, _)
ResolveFrom(parts, i, done) ==
    IF i > Len(parts) THEN done
    ELSE ResolveFrom(parts, i + 1,
                     IF parts[i] # ".." THEN Append(done, parts[i])
                     ELSE IF done = <<>> THEN <<>>
                     ELSE SubSeq(done, 1, Len(done) - 1))

ResolveParts(parts) == ResolveFrom(parts, 1, <<>>)

\* "/".join(parts)
RECURSIVE JoinParts(_)
JoinParts(parts) ==
    IF parts = <<>> THEN ""
    ELSE IF Len(parts) = 1 THEN parts[1]
    ELSE parts[1] \o "/" \o JoinParts(Tail(parts))

\* The absolute path of the given parts
AbsPath(parts) == "/" \o JoinParts(parts)

\* resolve_target(html_file, link_val): (html_file.parent / raw).resolve();
\* an absolute raw path replaces the directory of the document
resolve_target(html_file, link_val) ==
    LetIn(strip_fragment_query(link_val), LAMBDA raw :
        AbsPath(ResolveParts(IF CharAt(raw, 1) = "/" THEN PartsOf(raw)
                             ELSE PartsOf(PathParent(html_file)) \o PartsOf(raw))))

\* Path(raw_path).name
RawName(raw_path) ==
    LET parts == PartsOf(raw_path)
    IN  IF parts = <<>> THEN "" ELSE parts[Len(parts)]

\* How many leading parts two paths share
RECURSIVE CommonParts(_, _)
CommonParts(a, b) ==
    IF a # <<>> /\ b # <<>> /\ Head(a) = Head(b) THEN 1 + CommonParts(Tail(a), Tail(b)) ELSE 0

\* os.path.relpath(target, start): up from start to the directory the two
\* share, then down to target
relpath(target, start) ==
    LetIn(PartsOf(target), LAMBDA t :
    LetIn(PartsOf(start), LAMBDA s :
    LetIn(CommonParts(t, s), LAMBDA c :
    LetIn([i \in 1..(Len(s) - c) |-> ".."] \o SubSeq(t, c + 1, Len(t)), LAMBDA route :
        IF route = <<>> THEN "." ELSE JoinParts(route)))))

\* to_rel(from_dir, target)
to_rel(from_dir, target) == ReplaceBackslash(relpath(target, from_dir))

\* s.count(c)
Count(s, c) == Cardinality({k \in 1..Len(s) : CharAt(s, k) = c})

\* a < b for tuples of strings and of integers, as Python compares them
RECURSIVE PartsLess(_, _)
PartsLess(a, b) ==
    IF b = <<>> THEN FALSE
    ELSE IF a = <<>> THEN TRUE
    ELSE IF Head(a) = Head(b) THEN PartsLess(Tail(a), Tail(b))
    ELSE StrLess(Head(a), Head(b))

(***************************************************************************)
(* tools/polish_links.py: the filename index, the candidate choice and the *)
(* scan of one document.  A tree maps the absolute path of every regular   *)
(* file to its bytes, written as a string; the directories are the         *)
(* directories above the files.  The platform is POSIX: names are case     *)
(* sensitive and a line of text ends with a line feed.                     *)
(***************************************************************************)
Repo == "/repo"

\* bp = (repo / args.build_plan).resolve(), with the default of --build-plan
BuildPlan == Repo \o "/Build_plan"

\* p lies below the directory d
Below(p, d) == Len(p) > Len(d) + 1 /\ Slice(p, 1, Len(d) + 1) = d \o "/"

\* p.is_file() and Path.exists()
IsFile(tree, p) == p \in DOMAIN tree
IsDir(tree, p) == p = "/" \/ \E q \in DOMAIN tree : Below(q, p)
PathExists(tree, p) == IsFile(tree, p) \/ IsDir(tree, p)

\* The paths of S in increasing order
RECURSIVE SortedPaths(_)
SortedPaths(S) ==
    IF S = {} THEN <<>>
    ELSE LET m == CHOOSE x \in S : \A y \in S : x = y \/ PartsLess(PartsOf(x), PartsOf(y))
         IN  <<m>> \o SortedPaths(S \ {m})

\* d.rglob("*") without the directories, in the order of the directory
\* listing: the one or the other direction
ListFiles(tree, d, ord) ==
    LET listed == SortedPaths({p \in DOMAIN tree : Below(p, d)})
    IN  IF ord = "asc" THEN listed ELSE Reverse(listed)

\* build_filename_index(build_plan_root): lower-cased name -> the paths of
\* that name, in listing order
build_filename_index(tree, build_plan_root, ord) ==
    LET files == ListFiles(tree, build_plan_root, ord)
    IN  [name \in {lower(PathName(files[i])) : i \in 1..Len(files)} |->
            LET Named(p) == lower(PathName(p)) = name IN SelectSeq(files, Named)]

\* html_files: the files of bp that match *.html, sorted
HtmlFiles(tree, bp) ==
    SortedPaths({p \in DOMAIN tree :
                    /\ Below(p, bp)
                    /\ Len(PathName(p)) >= 5
                    /\ Slice(PathName(p), Len(PathName(p)) - 4, Len(PathName(p))) = ".html"})

\* score(p) of choose_best_candidate
Score(cur_dir, p) ==
    LET same_dir == IF PathParent(p) = cur_dir THEN 1 ELSE 0
        relp == ReplaceBackslash(relpath(p, cur_dir))
        depth == Count(relp, "/") + 1
    IN  <<same_dir, 0 - depth, lower(p)>>

\* a < b for two scores
ScoreLess(a, b) ==
    IF a[1] # b[1] THEN a[1] < b[1]
    ELSE IF a[2] # b[2] THEN a[2] < b[2]
    ELSE StrLess(a[3], b[3])

\* A candidate choice that prefers the longer route: depth in the place of -depth
choose_deepest_candidate(current_html, candidates) ==
    LET cur_dir == PathParent(current_html)
        Deeper(a, b) == IF a[1] # b[1] THEN a[1] < b[1]
                        ELSE IF a[2] # b[2] THEN a[2] > b[2]
                        ELSE StrLess(a[3], b[3])
        i == CHOOSE k \in 1..Len(candidates) :
                 /\ \A j \in 1..Len(candidates) :
                        ~Deeper(Score(cur_dir, candidates[k]), Score(cur_dir, candidates[j]))
                 /\ \A j \in 1..(k - 1) :
                        Deeper(Score(cur_dir, candidates[j]), Score(cur_dir, candidates[k]))
    IN  candidates[i]

\* choose_best_candidate(current_html, candidates): the first element of
\* sorted(candidates, key=score, reverse=True), a stable sort: a candidate of
\* greatest score, the first of them in the list
choose_best_candidate(current_html, candidates) ==
    LET cur_dir == PathParent(current_html)
        i == CHOOSE k \in 1..Len(candidates) :
                 /\ \A j \in 1..Len(candidates) :
                        ~ScoreLess(Score(cur_dir, candidates[k]), Score(cur_dir, candidates[j]))
                 /\ \A j \in 1..(k - 1) :
                        ScoreLess(Score(cur_dir, candidates[j]), Score(cur_dir, candidates[k]))
    IN  candidates[i]

\* f.read_text(encoding="utf-8", errors="ignore") of the bytes of a file:
\* every line ending (\r\n or \r) is read as \n
RECURSIVE Decode(_)
Decode(bytes) ==
    LET r == FindFrom(bytes, "\r", 1)
    IN  IF r = 0 THEN bytes
        ELSE Slice(bytes, 1, r - 1) \o "\n"
                \o Decode(Slice(bytes, IF Slice(bytes, r + 1, r + 1) = "\n" THEN r + 2 ELSE r + 1,
                                Len(bytes)))

\* The bytes write_text(text, encoding="utf-8") writes: \n stays \n
Encode(text) == text

\* LinkIssue(file, attr, original, resolved_from, status, suggestion)
LinkIssue(f, m, status, suggestion) ==
    [file |-> Slice(f, Len(Repo) + 2, Len(f)),
     attr |-> m.attr,
     original |-> m.val,
     resolved_from |-> Slice(PathParent(f), Len(Repo) + 2, Len(PathParent(f))),
     status |-> status,
     suggestion |-> suggestion]

\* Findings that treat a reference without candidates as fixed by nothing:
\* a FIXED issue and a replacement by the empty text
FindingsBlankFix(f, m, candidates) ==
    LetIn(IF candidates = <<>> THEN ""
          ELSE preserve_suffix(m.val, to_rel(PathParent(f), choose_best_candidate(f, candidates))),
          LAMBDA new_val :
              [broken |-> <<LinkIssue(f, m, "BROKEN", new_val)>>,
               fixed |-> <<LinkIssue(f, m, "FIXED", new_val)>>,
               replacements |-> << <<m.start, m.end, new_val>> >>])

\* What a reference that is broken adds to broken, to fixed and to
\* replacements, given the candidates of its file name
Findings(f, m, candidates) ==
    IF candidates = <<>>
    THEN [broken |-> <<LinkIssue(f, m, "BROKEN", "")>>, fixed |-> <<>>, replacements |-> <<>>]
    ELSE LetIn(preserve_suffix(m.val, to_rel(PathParent(f), choose_best_candidate(f, candidates))),
               LAMBDA new_val :
                   [broken |-> <<LinkIssue(f, m, "BROKEN", new_val)>>,
                    fixed |-> <<LinkIssue(f, m, "FIXED", new_val)>>,
                    replacements |-> << <<m.start, m.end, new_val>> >>])

\* filename_index.get(Path(raw_path).name.lower(), [])
CandidatesOf(index, raw_path) ==
    LetIn(lower(RawName(raw_path)), LAMBDA filename :
        IF filename \in DOMAIN index THEN index[filename] ELSE <<>>)

\* One turn of the loop over ATTR_RE.finditer(text): what the match m adds
\* to broken, to fixed and to replacements
ScanMatch(tree, f, index, m) ==
    LetIn([broken |-> <<>>, fixed |-> <<>>, replacements |-> <<>>], LAMBDA nothing :
    LetIn(strip_fragment_query(m.val), LAMBDA raw_path :
        IF m.val = "" \/ is_external(m.val) THEN nothing
        ELSE IF IsDiskPath(m.val) THEN nothing
        ELSE IF StartsWith(lower(m.val), "data:") THEN nothing
        ELSE IF raw_path = "" THEN nothing
        ELSE IF PathExists(tree, resolve_target(f, m.val)) THEN nothing
        ELSE Findings(f, m, CandidatesOf(index, raw_path))))

\* The loop over the matches of a document from the i-th on, found being
\* what the matches before it added
RECURSIVE ScanMatches(_, _, _, _, _, _)
ScanMatches(tree, f, index, matches, i, found) ==
    IF i > Len(matches) THEN found
    ELSE ScanMatches(tree, f, index, matches, i + 1,
                     LetIn(ScanMatch(tree, f, index, matches[i]), LAMBDA turn :
                         [broken |-> found.broken \o turn.broken,
                          fixed |-> found.fixed \o turn.fixed,
                          replacements |-> found.replacements \o turn.replacements]))

\* sorted(replacements, key=lambda x: x[0], reverse=True): greatest start
\* first, equal starts in their order in the list
RECURSIVE SortedByStartDesc(_)
SortedByStartDesc(reps) ==
    IF reps = <<>> THEN <<>>
    ELSE LET i == CHOOSE k \in 1..Len(reps) :
                      /\ \A j \in 1..Len(reps) : reps[j][1] <= reps[k][1]
                      /\ \A j \in 1..(k - 1) : reps[j][1] < reps[k][1]
         IN  <<reps[i]>> \o SortedByStartDesc(RemoveAt(reps, i))

\* The replacements made in the given order, the first first
RECURSIVE ReplaceInOrder(_, _)
ReplaceInOrder(text, reps) ==
    IF reps = <<>> THEN text
    ELSE ReplaceInOrder(Slice(text, 1, reps[1][1]) \o reps[1][3]
                            \o Slice(text, reps[1][2] + 1, Len(text)),
                        Tail(reps))

\* A rewrite that makes the replacements from the start of the text on
RewriteForward(text, replacements) == ReplaceInOrder(text, Reverse(SortedByStartDesc(replacements)))

\* The rewrite of a document: new_text after the loop over the sorted replacements
Rewrite(text, replacements) == ReplaceInOrder(text, SortedByStartDesc(replacements))

\* f.with_suffix(f.suffix + ".bak_polish")
BackupOf(f) == f \o ".bak_polish"

(***************************************************************************)
(* The state of polish_links.py: a site below Build_plan, and main().     *)
(***************************************************************************)
MaxPolishRuns == 2

\* stamp(): one per run
stamp(n) == "20260101_00000" \o IntStr(n)

\* outdir = repo / "reports" / "polish" / stamp()
PolishOutDir(n) == Repo \o "/reports/polish/" \o stamp(n)

\* A field as csv.writer writes it (QUOTE_MINIMAL): quoted when it holds the
\* delimiter, the quote character or a character of the line terminator
RECURSIVE DoubleQuotes(_)
DoubleQuotes(s) ==
    LET q == FindFrom(s, "\"", 1)
    IN  IF q = 0 THEN s
        ELSE Slice(s, 1, q) \o "\"" \o DoubleQuotes(Slice(s, q + 1, Len(s)))

CsvField(s) ==
    IF ContainsAny(s, {",", "\"", "\r", "\n"}) THEN "\"" \o DoubleQuotes(s) \o "\"" ELSE s

\* w.writerow([...]) of one LinkIssue
CsvRow(r) ==
    CsvField(r.file) \o "," \o CsvField(r.attr) \o "," \o CsvField(r.original) \o ","
        \o CsvField(r.resolved_from) \o "," \o CsvField(r.status) \o ","
        \o CsvField(r.suggestion) \o "\r\n"

RECURSIVE CsvRows(_)
CsvRows(issues) ==
    IF issues = <<>> THEN "" ELSE CsvRow(Head(issues)) \o CsvRows(Tail(issues))

\* The text of broken_links.csv and of fixed_links.csv
CsvReport(issues) ==
    "file,attr,original,resolved_from,status,suggestion\r\n" \o CsvRows(issues)

\* The document of the site whose two references vary, and the files a
\* reference can mean
Page == BuildPlan \o "/m3/page.html"
Second == BuildPlan \o "/m7/overview.html"
MovedDir == BuildPlan \o "/moved"

\* The first reference of the document: relative values
FirstValues == {"old/overview.html#t", "overview.html", "x.html?v=1", "nope.html"}

\* The second reference: values of every kind the filter of main() tells apart
SecondValues ==
    {"https://e.org/x.html", "ftp://e.org/x.html", "data:,x.html", "C:/d/x.html",
     "#top", "mailto:x@e.org", "old/x.html"}

\* The bytes of the document: two references, lines ended by nl
PageBytes(v1, v2, nl) ==
    "<a href=\"" \o v1 \o "\">a</a>" \o nl \o "<img src='" \o v2 \o "'>" \o nl

\* The second document refers to a page of another directory
SecondBytes == "<a href=\"page.html\">p</a>"

\* The sets of files around the document
Surroundings ==
    {{},
     {BuildPlan \o "/m3/overview.html", Second, BuildPlan \o "/overview.html"},
     {Second, BuildPlan \o "/overview.html"},
     {BuildPlan \o "/B/x.html", BuildPlan \o "/a/x.html", Second},
     {BuildPlan \o "/B/x.html", BuildPlan \o "/b/x.html"},
     {BuildPlan \o "/m3/overview.html", BuildPlan \o "/B/x.html"}}

Site(S, v1, v2, nl) ==
    [p \in S \cup {Page} |->
        IF p = Page THEN PageBytes(v1, v2, nl)
        ELSE IF p = Second THEN SecondBytes
        ELSE ""]

\* The direction of a directory listing varies where it can show: in a site
\* with two files whose paths differ by case only
PolishInit ==
    /\ \E S \in Surroundings, v1 \in FirstValues, v2 \in SecondValues, nl \in {"\n", "\r\n"} :
          site = Site(S, v1, v2, nl)
    /\ order \in IF \E p \in DOMAIN site : PathName(PathParent(p)) = "b"
                 THEN {"asc", "desc"}
                 ELSE {"asc"}
    /\ ppc = "idle"
    /\ pruns = 0
    /\ papply = FALSE
    /\ filename_index = [n \in {} |-> <<>>]
    /\ html_files = <<>>
    /\ fpos = 1
    /\ broken = <<>>
    /\ fixed = <<>>
    /\ fs = EmptyTree
    /\ dirs = {Root}
    /\ hashing = FALSE
    /\ pc = "idle"
    /\ runs = 0
    /\ apply = FALSE
    /\ scanFs = EmptyTree
    /\ records = <<>>
    /\ dup_paths = {}
    /\ actions = <<>>
    /\ idx = 1
    /\ probe = NoProbe

reorgVars == <<fs, dirs, hashing, order, pc, runs, apply, scanFs, records, dup_paths, actions, idx, probe>>

\* main() up to the loop over html_files: the arguments, bp, the index, the
\* two lists and html_files. outdir, an empty directory until the reports are
\* written, is no file of the site
PolishStart(a) ==
    /\ ppc \in {"idle", "done"}
    /\ pruns < MaxPolishRuns
    /\ PathExists(site, BuildPlan)
    /\ papply' = a
    /\ pruns' = pruns + 1
    /\ filename_index' = build_filename_index(site, BuildPlan, order)
    /\ html_files' = HtmlFiles(site, BuildPlan)
    /\ broken' = <<>>
    /\ fixed' = <<>>
    /\ fpos' = 1
    /\ ppc' = "scanning"
    /\ UNCHANGED <<site, reorgVars>>

\* What one turn of the loop over html_files finds in the document f
ScanFile(tree, f, index) ==
    ScanMatches(tree, f, index, FindIter(Decode(tree[f]), 1), 1,
                [broken |-> <<>>, fixed |-> <<>>, replacements |-> <<>>])

\* One turn of the loop over html_files: the document is read and scanned,
\* and with --apply and a replacement it is backed up and rewritten
PolishFile ==
    /\ ppc = "scanning"
    /\ fpos <= Len(html_files)
    /\ \E f \in {html_files[fpos]} :
       \E text \in {Decode(site[f])} :
       \E found \in {ScanFile(site, f, filename_index)} :
       \E bak \in {BackupOf(f)} :
          /\ broken' = broken \o found.broken
          /\ fixed' = fixed \o found.fixed
          /\ site' = IF found.replacements # <<>> /\ papply
                     THEN With(IF PathExists(site, bak) THEN site ELSE With(site, bak, Encode(text)),
                               f, Encode(Rewrite(text, found.replacements)))
                     ELSE site
    /\ fpos' = fpos + 1
    /\ UNCHANGED <<ppc, pruns, papply, filename_index, html_files, reorgVars>>

\* After the loop: the two reports, written in a dry run as well
PolishReports ==
    /\ ppc = "scanning"
    /\ fpos > Len(html_files)
    /\ site' = With(With(site, PolishOutDir(pruns) \o "/broken_links.csv", CsvReport(broken)),
                    PolishOutDir(pruns) \o "/fixed_links.csv", CsvReport(fixed))
    /\ ppc' = "done"
    /\ UNCHANGED <<pruns, papply, filename_index, html_files, fpos, broken, fixed, reorgVars>>

\* Between two runs the operator moves a file of the site to another directory
Relocate ==
    /\ ppc = "done"
    /\ pruns < MaxPolishRuns
    /\ ~IsDir(site, MovedDir)
    /\ \E p \in DOMAIN site :
          /\ Below(p, BuildPlan)
          /\ PathSuffix(p) = ".html"
          /\ p # Page
          /\ site' = With(Without(site, p), MovedDir \o "/" \o PathName(p), site[p])
    /\ UNCHANGED <<ppc, pruns, papply, filename_index, html_files, fpos, broken, fixed, reorgVars>>

PolishNext ==
    \/ \E a \in BOOLEAN : PolishStart(a)
    \/ PolishFile
    \/ PolishReports
    \/ Relocate

PolishSpec == PolishInit /\ [][PolishNext]_vars

\* C21: the destination choose_destination gives for a destination it
\* returned, with the same file name, is that destination again
C21_ClassifierIdempotent ==
    probe.again # "" => probe.again = probe.dest

\* C21 witness: notes/a.py was sent to src/a.py by the source-code rule, and
\* src/a.py was classified again and stays where it is
C21_Witness ==
    /\ probe.rel = "notes/a.py"
    /\ probe.dest = "src/a.py"
    /\ probe.reason = "Source code"
    /\ probe.again = "src/a.py"

(***************************************************************************)
(* Repeated runs with --apply, one after the other with the same hashing   *)
(* flag, from trees with files whose names hold a token of the not-needed  *)
(* filter.                                                                 *)
(***************************************************************************)
ConvergeCandidates ==
    <<"old_notes.txt",
      "docs/misc/old_notes.txt",
      "tools/export.py",
      "notes/a.md",
      "x/a.txt">>

ConvergeTree(S, content, mtime) ==
    [p \in {Join(Root, ConvergeCandidates[i]) : i \in S} |->
        LET i == CHOOSE k \in S : Join(Root, ConvergeCandidates[k]) = p
        IN  [content |-> content[i], mtime |-> mtime[i], ino |-> i,
             statable |-> TRUE, readable |-> TRUE]]

ConvergeInit ==
    /\ \E S \in SUBSET (1..Len(ConvergeCandidates)) :
          /\ Cardinality(S) \in 1..MaxFiles
          /\ \E content \in [S -> 1..NContents], mtime \in [S -> 1..NTimes] :
                /\ ContentsInOrder(S, content)
                /\ TimesDense(S, mtime)
                /\ fs = ConvergeTree(S, content, mtime)
    /\ dirs = UNION {Ancestors(PathParent(p)) : p \in DOMAIN fs}
    /\ hashing \in BOOLEAN
    /\ order = "asc"
    /\ pc = "idle"
    /\ runs = 0
    /\ apply = FALSE
    /\ scanFs = fs
    /\ records = <<>>
    /\ dup_paths = {}
    /\ actions = <<>>
    /\ idx = 1
    /\ probe = NoProbe
    /\ PolishIdle

ConvergeNext ==
    \/ Run(TRUE)
    \/ MakeDirs
    \/ Move
    \/ WriteReports

ConvergeSpec == ConvergeInit /\ [][ConvergeNext]_vars

\* The path the previous run took the file now at p from
ComesFrom(p, q) == q \in DOMAIN scanFs /\ scanFs[q].ino = fs[p].ino /\ q # p

\* C22: repeated runs with --apply converge to a tree whose plan has no moves,
\* so that no file goes back and forth between two locations: the plan that
\* follows an apply run never sends a file the run relocated back to the path
\* the run took it from.
C22_NoBackAndForth ==
    [][(pc = "done" /\ apply /\ pc' = "planned") =>
          \A i \in 1..Len(records') :
              ~ComesFrom(records'[i].abs_path, Join(Root, records'[i].dest_rel_path))]_vars

(***************************************************************************)
(* The scan over trees with skipped directories, with a file named like a  *)
(* skipped directory, and with files whose metadata or bytes cannot be     *)
(* read.                                                                   *)
(***************************************************************************)
ScanCandidates ==
    <<".git/config",
      "docs/.git",
      "docs/a.txt",
      "b.txt",
      "x/node_modules/m.js">>

\* The tree of the candidates S; the file numbered dangling fails p.stat(),
\* the file numbered locked fails open(p, "rb") (0: no file does)
ScanTree(S, content, dangling, locked) ==
    [p \in {Join(Root, ScanCandidates[i]) : i \in S} |->
        LET i == CHOOSE k \in S : Join(Root, ScanCandidates[k]) = p
        IN  [content |-> content[i], mtime |-> 1, ino |-> i,
             statable |-> i # dangling, readable |-> i # locked]]

ScanInit ==
    /\ \E S \in SUBSET (1..Len(ScanCandidates)) :
          /\ Cardinality(S) \in 1..MaxFiles
          /\ \E content \in [S -> 1..NContents], dangling \in S \cup {0}, locked \in S \cup {0} :
                /\ ContentsInOrder(S, content)
                /\ fs = ScanTree(S, content, dangling, locked)
    /\ dirs = UNION {Ancestors(PathParent(p)) : p \in DOMAIN fs}
    /\ hashing \in BOOLEAN
    /\ order \in {"asc", "desc"}
    /\ pc = "idle"
    /\ runs = 0
    /\ apply = FALSE
    /\ scanFs = fs
    /\ records = <<>>
    /\ dup_paths = {}
    /\ actions = <<>>
    /\ idx = 1
    /\ probe = NoProbe
    /\ PolishIdle

ScanSpec == ScanInit /\ [][Next]_vars

(***************************************************************************)
(* Claims about tools/polish_links.py.                                     *)
(***************************************************************************)
\* The key of a candidate p for a document of directory cur_dir: whether it
\* lies in that directory, minus the number of segments of the relative
\* route, and the given form of its absolute path
CandidateKey(cur_dir, p, path_string) ==
    <<IF PathParent(p) = cur_dir THEN 1 ELSE 0,
      0 - Len(SegmentsFrom(relpath(p, cur_dir), 1)),
      path_string>>

\* The lexicographic order of two keys
KeyLess(a, b) ==
    \/ a[1] < b[1]
    \/ a[1] = b[1] /\ a[2] < b[2]
    \/ a[1] = b[1] /\ a[2] = b[2] /\ StrLess(a[3], b[3])

\* The document of an issue, and the candidates the index holds for it
IssueFile(r) == Repo \o "/" \o r.file
IssueCandidates(r) == CandidatesOf(filename_index, strip_fragment_query(r.original))

\* The suggestion of the issue r leads to the candidate c
Suggests(r, c) ==
    r.suggestion = preserve_suffix(r.original, to_rel(PathParent(IssueFile(r)), c))

HasUrlScheme(v) ==
    /\ SplitScheme(Strip(v))[1] # ""
    /\ StartsWith(SplitScheme(Strip(v))[2], "//")

\* The values the engine is to skip: external values, absolute disk paths
\* and data URIs
SkippedValue(v) ==
    \/ HasUrlScheme(v)
    \/ \E s \in {"mailto:", "tel:", "#", "javascript:", "data:"} : StartsWith(lower(Strip(v)), s)
    \/ IsDiskPath(v)

\* C14: no LinkIssue, BROKEN or FIXED, is recorded for a skipped value
C14_SkippedNeverReported ==
    /\ \A i \in 1..Len(broken) : ~SkippedValue(broken[i].original)
    /\ \A i \in 1..Len(fixed) : ~SkippedValue(fixed[i].original)

\* A relative reference: no scheme, no host, not a fragment alone
RelativeReference(v) ==
    /\ urlparse(v).scheme = ""
    /\ urlparse(v).netloc = ""
    /\ urlparse(v).path # ""

\* The reference m of the document f cannot be resolved: its target does
\* not exist and the index has no file of its name
Unresolvable(f, m) ==
    /\ RelativeReference(m.val)
    /\ ~PathExists(site, resolve_target(f, m.val))
    /\ lower(RawName(strip_fragment_query(m.val))) \notin DOMAIN filename_index

\* The issues of a list that are about the reference m
IssuesOf(issues, m) ==
    {i \in 1..Len(issues) : issues[i].attr = m.attr /\ issues[i].original = m.val}

\* C15: when a document is scanned, each of its references that cannot be
\* resolved gets one BROKEN issue with an empty suggestion and no FIXED
\* issue, it stays in the document as it was, and the scan goes on: the
\* other broken references of the document are recorded and the loop moves
\* to the next document
C15_UnresolvableReported ==
    [][(ppc = "scanning" /\ fpos' # fpos) =>
        LET f == html_files[fpos]
            matches == FindIter(Decode(site[f]), 1)
            new_broken == SubSeq(broken', Len(broken) + 1, Len(broken'))
            new_fixed == SubSeq(fixed', Len(fixed) + 1, Len(fixed'))
            after == FindIter(Decode(site'[f]), 1)
        IN  /\ fpos' = fpos + 1
            /\ ppc' = "scanning"
            /\ \A k \in 1..Len(matches) :
                  /\ Unresolvable(f, matches[k]) =>
                        /\ Cardinality(IssuesOf(new_broken, matches[k]))
                              = Cardinality({j \in 1..Len(matches) :
                                                /\ matches[j].attr = matches[k].attr
                                                /\ matches[j].val = matches[k].val})
                        /\ \A i \in IssuesOf(new_broken, matches[k]) :
                              new_broken[i].status = "BROKEN" /\ new_broken[i].suggestion = ""
                        /\ IssuesOf(new_fixed, matches[k]) = {}
                        /\ Len(after) = Len(matches)
                        /\ after[k].attr = matches[k].attr
                        /\ after[k].val = matches[k].val
                  /\ (/\ RelativeReference(matches[k].val)
                      /\ ~PathExists(site, resolve_target(f, matches[k].val))) =>
                        IssuesOf(new_broken, matches[k]) # {}
      ]_vars

\* An apply run found nope.html, which no file of the site is named, in
\* m3/page.html: one BROKEN issue without suggestion, the reference still in
\* the document, the other reference of the document fixed, and an issue of
\* the document scanned after it
C15_Witness ==
    /\ papply
    /\ \E i, j \in 1..Len(broken) :
          /\ i < j
          /\ broken[i].original = "nope.html"
          /\ broken[i].suggestion = ""
          /\ broken[i].file = "Build_plan/m3/page.html"
          /\ broken[j].file = "Build_plan/m7/overview.html"
    /\ \E i \in 1..Len(fixed) : fixed[i].original = "old/x.html"
    /\ \A i \in 1..Len(fixed) : fixed[i].original # "nope.html"
    /\ site[Page] = PageBytes("nope.html", "../B/x.html", "\n")

\* C16: the backup of a document holds the bytes the document had before
\* the first run that rewrote it, a backup that exists is never changed, and
\* a document that is not rewritten gets no backup
C16_BackupOnce ==
    [][/\ \A p \in DOMAIN site :
            (p \in DOMAIN site' /\ PathSuffix(p) = ".bak_polish") => site'[p] = site[p]
       /\ \A f \in DOMAIN site :
            (BackupOf(f) \in DOMAIN site' \ DOMAIN site) =>
                /\ site'[f] # site[f]
                /\ site'[BackupOf(f)] = site[f]
      ]_vars

\* The text from position pos on with every span of reps that starts there or
\* later replaced by its suggestion: the characters before the first such
\* span, its suggestion, and the same for what follows the span
RECURSIVE SplicedFrom(_, _, _)
SplicedFrom(text, reps, pos) ==
    LET later == {k \in 1..Len(reps) : reps[k][1] + 1 >= pos}
        next == CHOOSE k \in later : \A j \in later : reps[k][1] <= reps[j][1]
    IN  IF later = {} THEN Slice(text, pos, Len(text))
        ELSE Slice(text, pos, reps[next][1]) \o reps[next][3]
                \o SplicedFrom(text, reps, reps[next][2] + 1)

\* C17: a document that is rewritten becomes its text with each accepted
\* span replaced by its own suggestion and every other character as it was
C17_RewriteOffsetSafe ==
    [][(ppc = "scanning" /\ fpos' # fpos /\ papply) =>
        LET f == html_files[fpos]
            replacements == ScanFile(site, f, filename_index).replacements
        IN  replacements # <<>> =>
                site'[f] = Encode(SplicedFrom(Decode(site[f]), replacements, 1))
      ]_vars

\* m3/page.html was rewritten in two places, the first suggestion shorter
\* than the value it replaces and the second one longer
C17_Witness ==
    /\ BackupOf(Page) \in DOMAIN site
    /\ site[BackupOf(Page)] = PageBytes("old/overview.html#t", "old/x.html", "\n")
    /\ site[Page] = PageBytes("overview.html#t", "../B/x.html", "\n")

(***************************************************************************)
(* Claims about the scan of repo_reorg.py.                                 *)
(***************************************************************************)
\* The file p lies under a directory of an excluded name
UnderSkipDir(p) ==
    LET parts == PathParts(normalize_rel(Root, p))
    IN  \E i \in 1..(Len(parts) - 1) : parts[i] \in SKIP_DIRS

\* The paths of the records
RecordPaths(recs) == {recs[i].abs_path : i \in 1..Len(recs)}

\* C18: a run whose scan meets a file whose metadata cannot be read still
\* gets to planning, with a record for every other file of the scan
C18_StatFailureDoesNotAbort ==
    [][runs' = runs + 1 =>
          /\ pc' = "planned"
          /\ \A p \in DOMAIN fs :
                (~UnderSkipDir(p) /\ PathName(p) \notin SKIP_DIRS /\ fs[p].statable)
                    => p \in RecordPaths(records')
      ]_vars

\* C19: with hashing enabled, the record of a file whose hashing failed has
\* an action and, at the end of planning, the failure as its reason
C19_HashFailureRecorded ==
    (pc = "planned" /\ hashing) =>
        \A i \in 1..Len(records) :
            ~scanFs[records[i].abs_path].readable =>
                /\ records[i].action \in {KEEP_IN_PLACE, MOVE_TO_DEST, MOVE_TO_ARCHIVE_DUPLICATE,
                                          MOVE_TO_ARCHIVE_NOT_NEEDED, MOVE_TO_ARCHIVE_UNKNOWN}
                /\ StartsWith(records[i].reason, "Hash failed")

\* C20: the records of a scan are the files of the tree that lie under no
\* directory of an excluded name, one record for each
C20_ScannerComplete ==
    pc = "planned" =>
        /\ RecordPaths(records) = {p \in DOMAIN scanFs : ~UnderSkipDir(p)}
        /\ Len(records) = Cardinality(RecordPaths(records))


(***************************************************************************)
(* polish_links.py run twice with --apply over a site nobody else touches, *)
(* with files whose names hold the characters of URL syntax.               *)
(***************************************************************************)
RepeatSurroundings ==
    {{BuildPlan \o "/B/c#1.html"},
     {BuildPlan \o "/B/a%20b.html", BuildPlan \o "/C/a b.html"},
     {BuildPlan \o "/B/x.html", BuildPlan \o "/overview.html", Second}}

RepeatFirstValues == {"old/c%231.html", "old/a%2520b.html", "old/overview.html#t", "nope.html"}

RepeatSecondValues == {"old/x.html", "x.html?v=1", "#top"}

RepeatInit ==
    /\ \E S \in RepeatSurroundings, v1 \in RepeatFirstValues, v2 \in RepeatSecondValues,
          nl \in {"\n", "\r\n"} :
          site = Site(S, v1, v2, nl)
    /\ order = "asc"
    /\ ppc = "idle"
    /\ pruns = 0
    /\ papply = FALSE
    /\ filename_index = [n \in {} |-> <<>>]
    /\ html_files = <<>>
    /\ fpos = 1
    /\ broken = <<>>
    /\ fixed = <<>>
    /\ fs = EmptyTree
    /\ dirs = {Root}
    /\ hashing = FALSE
    /\ pc = "idle"
    /\ runs = 0
    /\ apply = FALSE
    /\ scanFs = EmptyTree
    /\ records = <<>>
    /\ dup_paths = {}
    /\ actions = <<>>
    /\ idx = 1
    /\ probe = NoProbe

RepeatNext ==
    \/ PolishStart(TRUE)
    \/ PolishFile
    \/ PolishReports

RepeatSpec == RepeatInit /\ [][RepeatNext]_vars

\* The suggestion of the issue r, resolved from the directory of its document,
\* is the candidate that was chosen, a file of the tree below Build_plan
SuggestionResolves(tree, r) ==
    LET target == resolve_target(IssueFile(r), r.suggestion)
    IN  /\ IsFile(tree, target)
        /\ Below(target, BuildPlan)
        /\ target = choose_best_candidate(IssueFile(r), IssueCandidates(r))

\* C23: every suggestion an apply run writes leads, from the directory of the
\* document, to the chosen candidate, an existing file below Build_plan; and
\* the second apply run over the tree the first one left records no FIXED
\* issue and rewrites no document.
C23_ApplyIdempotent ==
    [][(ppc = "scanning" /\ papply /\ fpos' # fpos) =>
          /\ \A i \in (Len(fixed) + 1)..Len(fixed') : SuggestionResolves(site', fixed'[i])
          /\ pruns = 2 => (fixed' = fixed /\ site' = site)
      ]_vars
=============================================================================
